---- MODULE Spec2Model ----
(***************************************************************************)
(* rdsline: the profile store (rdsline/settings.py), the connections       *)
(* (rdsline/connections) and the REPL loop with its dot-commands           *)
(* (rdsline/cli.py), as a state machine.                                   *)
(*                                                                         *)
(* Python strings are sequences of atoms.  An atom is either one of the    *)
(* characters the code looks at (".", " ", ";", ":") or a run of other     *)
(* characters that the code never looks into ("SELECT 1", "us-east-1").    *)
(* Python dicts are functions on a set of string keys; the insertion       *)
(* ordered dict `profiles` is a sequence of [name, cfg] entries.           *)
(* An optional value (None or a value) is a sequence of length 0 or 1.     *)
(***************************************************************************)
EXTENDS Integers, Sequences, FiniteSets, TLC

VARIABLES
    profiles,         \* Settings.profiles: ordered dict name -> profile dict
    current_profile,  \* Settings.current_profile
    connection,       \* Settings.connection
    files,            \* the file system: path -> file content
    config_file,      \* ConfigCommand.config_file (None or a path)
    is_debug,         \* DebugCommand.is_debug
    buffer,           \* main: buffer
    prompt,           \* main: prompt
    default_prompt,   \* main: default_prompt
    args,             \* main: the parsed command line
    isatty,           \* sys.stdin.isatty()
    pc,               \* where the process is: start, running, exited, crashed, api
    exit_status,      \* the process exit status once it ended (None before)
    line,             \* main: what the last _read met: a line, end of input, or nothing yet
    call,             \* the Settings method called last (SpecSettings)
    raised,           \* the exception the last operation raised, NoError if none
    executed,         \* the execute calls made during the last step
    provider_calls,   \* the client provider calls made during the last step
    backend_calls,    \* the execute_statement calls made during the last step
    printed,          \* what the last step printed
    since_flush       \* history: the SQL lines read since the last flush

vars == <<profiles, current_profile, connection, files, config_file, is_debug,
          buffer, prompt, default_prompt, args, isatty, pc, exit_status, line,
          call, raised, executed, provider_calls, backend_calls, printed,
          since_flush>>

settings_vars == <<profiles, current_profile, connection>>
cli_vars == <<config_file, is_debug, buffer, prompt, default_prompt, args,
              isatty, exit_status, line, executed, backend_calls, printed,
              since_flush>>

(***************************************************************************)
(* Bounds of the model.                                                    *)
(***************************************************************************)
\* at most this many SQL lines are typed between two flushes
MaxPending == 2
\* at most this many profiles are held by the store
MaxProfiles == 3

(***************************************************************************)
(* Python values.                                                          *)
(***************************************************************************)
None == <<>>
Some(v) == <<v>>

NoError == [type |-> "none", msg |-> <<>>]
Error(type, msg) == [type |-> type, msg |-> msg]

\* str.split(sep): one part per separator occurrence plus one
RECURSIVE Split(_, _)
Split(s, sep) ==
    IF s = <<>> THEN << <<>> >>
    ELSE LET rest == Split(Tail(s), sep)
         IN  IF Head(s) = sep
             THEN << <<>> >> \o rest
             ELSE << <<Head(s)>> \o Head(rest) >> \o Tail(rest)

\* str.strip(): leading and trailing whitespace removed
RECURSIVE LStrip(_)
LStrip(s) == IF s # <<>> /\ Head(s) = " " THEN LStrip(Tail(s)) ELSE s

RECURSIVE RStrip(_)
RStrip(s) ==
    IF s # <<>> /\ s[Len(s)] = " " THEN RStrip(SubSeq(s, 1, Len(s) - 1)) ELSE s

Strip(s) == RStrip(LStrip(s))

\* str.lower() on the answers the model types
Lower(s) == [i \in 1..Len(s) |-> IF s[i] = "Y" THEN "y" ELSE s[i]]

\* ", ".join(parts)
RECURSIVE Join(_, _)
Join(parts, sep) ==
    IF parts = <<>> THEN <<>>
    ELSE IF Len(parts) = 1 THEN parts[1]
    ELSE parts[1] \o sep \o Join(Tail(parts), sep)

(***************************************************************************)
(* The ordered dict Settings.profiles.                                     *)
(***************************************************************************)
Names(ps) == [i \in 1..Len(ps) |-> ps[i].name]
Has(ps, n) == \E i \in 1..Len(ps) : ps[i].name = n
Get(ps, n) == ps[CHOOSE i \in 1..Len(ps) : ps[i].name = n].cfg
\* ps[n] = cfg: in place when n is a key, appended otherwise
Put(ps, n, cfg) ==
    IF Has(ps, n)
    THEN [i \in 1..Len(ps) |-> IF ps[i].name = n THEN [name |-> n, cfg |-> cfg] ELSE ps[i]]
    ELSE Append(ps, [name |-> n, cfg |-> cfg])

(***************************************************************************)
(* Program constants and the inputs the model draws from.                  *)
(***************************************************************************)
DEFAULT_PROFILE == <<"default">>
RDS_TYPE == <<"rds-secretsmanager">>

\* os.path.expanduser: a leading ~ becomes the home directory
expanduser(path) ==
    IF path # <<>> /\ Head(path) = "~" THEN <<"/home/u">> \o Tail(path) ELSE path

DEFAULT_CONFIG_FILE == expanduser(<<"~", "/.rdsline">>)

ArnEast == <<"arn", ":", "aws", ":", "rds", ":", "us-east-1", ":", "111", ":", "cluster", ":", "c">>
ArnWest == <<"arn", ":", "aws", ":", "rds", ":", "us-west-2", ":", "111", ":", "cluster", ":", "s">>

ProfDefault ==
    ("type" :> RDS_TYPE) @@ ("cluster_arn" :> ArnEast)
    @@ ("secret_arn" :> <<"secret-east">>) @@ ("database" :> <<"db">>)
ProfStaging ==
    ("type" :> RDS_TYPE) @@ ("cluster_arn" :> ArnWest)
    @@ ("secret_arn" :> <<"secret-west">>) @@ ("database" :> <<"staging_db">>)
    @@ ("credentials" :> ("profile" :> <<"dev">>))
ProfUnknownType ==
    ("type" :> <<"fake-unknown-type">>) @@ ("cluster_arn" :> ArnEast)
    @@ ("secret_arn" :> <<"secret-east">>) @@ ("database" :> <<"db">>)
ProfNoType ==
    ("cluster_arn" :> ArnEast) @@ ("secret_arn" :> <<"secret-east">>)
    @@ ("database" :> <<"db">>)
ProfMissingCluster ==
    ("type" :> RDS_TYPE) @@ ("secret_arn" :> <<"secret-east">>) @@ ("database" :> <<"db">>)
ProfMissingSecret ==
    ("type" :> RDS_TYPE) @@ ("cluster_arn" :> ArnEast) @@ ("database" :> <<"db">>)
ProfBadArn ==
    ("type" :> RDS_TYPE) @@ ("cluster_arn" :> <<"not-an-arn">>)
    @@ ("secret_arn" :> <<"secret-east">>) @@ ("database" :> <<"db">>)
ProfEmptySecret ==
    ("type" :> RDS_TYPE) @@ ("cluster_arn" :> ArnEast)
    @@ ("secret_arn" :> <<>>) @@ ("database" :> <<"db">>)
ProfOnlyType == "type" :> RDS_TYPE
ProfUnknownTypeNoDatabase ==
    ("type" :> <<"fake-unknown-type">>) @@ ("cluster_arn" :> ArnEast)
    @@ ("secret_arn" :> <<"secret-east">>)

Entry(n, cfg) == [name |-> n, cfg |-> cfg]

\* file contents: no such file, bytes that are not YAML, an empty document,
\* or a YAML mapping
NoFile == [kind |-> "missing"]
Unparsable == [kind |-> "unparsable"]
EmptyDoc == [kind |-> "empty"]
Yaml(doc) == [kind |-> "yaml", doc |-> doc]
MultiDoc(ps) == "profiles" :> ps

PathMulti == <<"multi.yaml">>
PathNoDefault == <<"missing_default.yaml">>
PathLegacy == <<"old_format.yaml">>
PathInvalid == <<"invalid.yaml">>
PathUnparsable == <<"garbage.yaml">>
PathAbsent == <<"absent.yaml">>
PathLazy == <<"lazy.yaml">>
Paths ==
    {PathMulti, PathNoDefault, PathLegacy, PathInvalid, PathUnparsable, PathAbsent,
     PathLazy, DEFAULT_CONFIG_FILE}

\* the file system the process starts with; the default file is one of defaultContent
InitialFiles(defaultContent) ==
    [p \in Paths |->
        CASE p = PathMulti ->
                Yaml(MultiDoc(<<Entry(DEFAULT_PROFILE, ProfDefault),
                                Entry(<<"staging">>, ProfStaging)>>))
          [] p = PathNoDefault ->
                Yaml(MultiDoc(<<Entry(<<"staging">>, ProfStaging),
                                Entry(<<"nosecret">>, ProfMissingSecret),
                                Entry(<<"broken">>, ProfUnknownTypeNoDatabase)>>))
          [] p = PathLegacy -> Yaml(ProfDefault)
          [] p = PathInvalid ->
                Yaml(MultiDoc(<<Entry(DEFAULT_PROFILE, ProfMissingCluster),
                                Entry(<<"broken">>, ProfUnknownType),
                                Entry(<<"prod">>, ProfNoType)>>))
          [] p = PathLazy ->
                Yaml(MultiDoc(<<Entry(DEFAULT_PROFILE, ProfDefault),
                                Entry(<<"broken">>, ProfUnknownType),
                                Entry(<<"nosecret">>, ProfMissingSecret)>>))
          [] p = PathUnparsable -> Unparsable
          [] p = PathAbsent -> NoFile
          [] OTHER -> defaultContent]

(***************************************************************************)
(* rdsline/connections                                                     *)
(***************************************************************************)
NoopConnection == [kind |-> "noop"]

\* the constructor with secret and database taken for one another
RDSSecretsManagerConnection_swapped(cluster_arn, secret_arn, database, client) ==
    [kind |-> "rds", cluster_arn |-> cluster_arn, secret_arn |-> database,
     database |-> secret_arn, client |-> client]

RDSSecretsManagerConnection(cluster_arn, secret_arn, database, client) ==
    [kind |-> "rds", cluster_arn |-> cluster_arn, secret_arn |-> secret_arn,
     database |-> database, client |-> client]

(***************************************************************************)
(* rdsline/settings.py                                                     *)
(***************************************************************************)
\* arn_parts[3] exists
HasRegion(cluster_arn) == Len(Split(cluster_arn, ":")) >= 4

\* _get_region that takes the part after the region
_get_region_account(cluster_arn) == Split(cluster_arn, ":")[5]

_get_region(cluster_arn) == Split(cluster_arn, ":")[4]

\* profile_config.get("credentials", {}).get("profile", "default")
AwsProfile(profile_config) ==
    IF "credentials" \in DOMAIN profile_config
       /\ "profile" \in DOMAIN profile_config["credentials"]
    THEN profile_config["credentials"]["profile"]
    ELSE <<"default">>

\* _create_connection_from_profile that asks the provider for a client before
\* it looks at the type
_create_connection_provider_first(profile_config, provider_ok) ==
    LET fail(e, calls) == [raised |-> e, connection |-> NoopConnection, provider_calls |-> calls]
        type == IF "type" \in DOMAIN profile_config THEN profile_config["type"] ELSE <<"None">>
    IN  IF "cluster_arn" \notin DOMAIN profile_config
        THEN fail(Error("KeyError", <<"cluster_arn">>), <<>>)
        ELSE IF ~HasRegion(profile_config["cluster_arn"])
        THEN fail(Error("IndexError", <<"list index out of range">>), <<>>)
        ELSE
            LET region == _get_region(profile_config["cluster_arn"])
                aws_profile == AwsProfile(profile_config)
                calls == << [profile |-> aws_profile, region |-> region] >>
                client == [profile |-> aws_profile, region |-> region]
            IN  IF ~provider_ok
                THEN fail(Error("ProviderError", <<"client provider failed">>), calls)
                ELSE IF type # RDS_TYPE
                THEN fail(Error("Exception", <<"Unsupported database connection type: ">> \o type),
                          calls)
                ELSE IF "secret_arn" \notin DOMAIN profile_config
                THEN fail(Error("KeyError", <<"secret_arn">>), calls)
                ELSE IF "database" \notin DOMAIN profile_config
                THEN fail(Error("KeyError", <<"database">>), calls)
                ELSE [raised |-> NoError,
                      connection |-> RDSSecretsManagerConnection(
                                        profile_config["cluster_arn"],
                                        profile_config["secret_arn"],
                                        profile_config["database"], client),
                      provider_calls |-> calls]

\* the outcome of building a connection: the exception raised (NoError if none),
\* the connection built, and the client provider calls made on the way.
\* provider_ok: whether the injected client provider returns a client or raises.
_create_connection_from_profile(profile_config, provider_ok) ==
    LET fail(e, calls) == [raised |-> e, connection |-> NoopConnection, provider_calls |-> calls]
        type == IF "type" \in DOMAIN profile_config THEN profile_config["type"] ELSE <<"None">>
    IN  IF type # RDS_TYPE
        THEN fail(Error("Exception", <<"Unsupported database connection type: ">> \o type), <<>>)
        ELSE IF "cluster_arn" \notin DOMAIN profile_config
        THEN fail(Error("KeyError", <<"cluster_arn">>), <<>>)
        ELSE IF ~HasRegion(profile_config["cluster_arn"])
        THEN fail(Error("IndexError", <<"list index out of range">>), <<>>)
        ELSE
            LET region == _get_region(profile_config["cluster_arn"])
                aws_profile == AwsProfile(profile_config)
                calls == << [profile |-> aws_profile, region |-> region] >>
                client == [profile |-> aws_profile, region |-> region]
            IN  IF ~provider_ok
                THEN fail(Error("ProviderError", <<"client provider failed">>), calls)
                ELSE IF "secret_arn" \notin DOMAIN profile_config
                THEN fail(Error("KeyError", <<"secret_arn">>), calls)
                ELSE IF "database" \notin DOMAIN profile_config
                THEN fail(Error("KeyError", <<"database">>), calls)
                ELSE [raised |-> NoError,
                      connection |-> RDSSecretsManagerConnection(
                                        profile_config["cluster_arn"],
                                        profile_config["secret_arn"],
                                        profile_config["database"], client),
                      provider_calls |-> calls]

\* A Settings object and the outcome of a method call on it
Settings(ps, cur, conn) == [profiles |-> ps, current_profile |-> cur, connection |-> conn]

Outcome(ps, cur, conn, e, calls) ==
    [profiles |-> ps, current_profile |-> cur, connection |-> conn,
     raised |-> e, provider_calls |-> calls]

\* Settings.__init__
Settings__init__ == Settings(<<>>, DEFAULT_PROFILE, NoopConnection)

\* switch_profile that records the name before it looks the profile up
switch_profile_name_first(S, profile_name, provider_ok) ==
    IF ~Has(S.profiles, profile_name)
    THEN Outcome(S.profiles, profile_name, S.connection,
                 Error("Exception", <<"Profile '">> \o profile_name \o <<"' not found in config">>),
                 <<>>)
    ELSE LET r == _create_connection_from_profile(Get(S.profiles, profile_name), provider_ok)
         IN  Outcome(S.profiles, profile_name,
                     IF r.raised = NoError THEN r.connection ELSE S.connection,
                     r.raised, r.provider_calls)

\* Settings.switch_profile(profile_name)
switch_profile(S, profile_name, provider_ok) ==
    IF ~Has(S.profiles, profile_name)
    THEN Outcome(S.profiles, S.current_profile, S.connection,
                 Error("Exception", <<"Profile '">> \o profile_name \o <<"' not found in config">>),
                 <<>>)
    ELSE LET r == _create_connection_from_profile(Get(S.profiles, profile_name), provider_ok)
         IN  Outcome(S.profiles, profile_name,
                     IF r.raised = NoError THEN r.connection ELSE S.connection,
                     r.raised, r.provider_calls)

\* what open(file) finds
FileAt(fs, file) == IF file \in DOMAIN fs THEN fs[file] ELSE NoFile

\* load_from_file that builds a connection for every profile of the file
load_from_file_eager(S, fs, file, provider_ok) ==
    LET unchanged(e) == Outcome(S.profiles, S.current_profile, S.connection, e, <<>>)
    IN  CASE FileAt(fs, file).kind = "missing" ->
                unchanged(Error("FileNotFoundError", file))
          [] FileAt(fs, file).kind = "unparsable" ->
                unchanged(Error("YAMLError", file))
          [] FileAt(fs, file).kind = "empty" ->
                unchanged(Error("TypeError", <<"argument of type 'NoneType' is not iterable">>))
          [] OTHER ->
                LET config == fs[file].doc
                    loaded == IF "profiles" \in DOMAIN config
                              THEN config["profiles"]
                              ELSE <<Entry(DEFAULT_PROFILE, config)>>
                    built == [i \in 1..Len(loaded) |->
                                _create_connection_from_profile(loaded[i].cfg, provider_ok)]
                    failed == SelectSeq(built, LAMBDA b : b.raised # NoError)
                IN  IF failed # <<>>
                    THEN Outcome(loaded, S.current_profile, S.connection,
                                 failed[1].raised, failed[1].provider_calls)
                    ELSE switch_profile(Settings(loaded, S.current_profile, S.connection),
                                        DEFAULT_PROFILE, provider_ok)

\* load_from_file that adds what it loads to the profiles already there
load_from_file_merge(S, fs, file, provider_ok) ==
    LET unchanged(e) == Outcome(S.profiles, S.current_profile, S.connection, e, <<>>)
    IN  CASE FileAt(fs, file).kind = "missing" ->
                unchanged(Error("FileNotFoundError", file))
          [] FileAt(fs, file).kind = "unparsable" ->
                unchanged(Error("YAMLError", file))
          [] FileAt(fs, file).kind = "empty" ->
                unchanged(Error("TypeError", <<"argument of type 'NoneType' is not iterable">>))
          [] OTHER ->
                LET config == fs[file].doc
                    loaded == IF "profiles" \in DOMAIN config
                              THEN config["profiles"]
                              ELSE Put(S.profiles, DEFAULT_PROFILE, config)
                IN  switch_profile(Settings(loaded, S.current_profile, S.connection),
                                   DEFAULT_PROFILE, provider_ok)

\* Settings.load_from_file(file)
load_from_file(S, fs, file, provider_ok) ==
    LET unchanged(e) == Outcome(S.profiles, S.current_profile, S.connection, e, <<>>)
    IN  CASE FileAt(fs, file).kind = "missing" ->
                unchanged(Error("FileNotFoundError", file))
          [] FileAt(fs, file).kind = "unparsable" ->
                unchanged(Error("YAMLError", file))
          [] FileAt(fs, file).kind = "empty" ->
                unchanged(Error("TypeError", <<"argument of type 'NoneType' is not iterable">>))
          [] OTHER ->
                LET config == fs[file].doc
                    loaded == IF "profiles" \in DOMAIN config
                              THEN config["profiles"]
                              ELSE <<Entry(DEFAULT_PROFILE, config)>>
                IN  switch_profile(Settings(loaded, S.current_profile, S.connection),
                                   DEFAULT_PROFILE, provider_ok)

\* Settings.get_profile_names / get_current_profile
get_profile_names(S) == Names(S.profiles)
get_current_profile(S) == S.current_profile

required_fields == <<"type", "cluster_arn", "secret_arn", "database">>

\* add_profile that replaces the entry of a name already present
add_profile_overwrite(S, profile_name, config) ==
    LET unchanged(e) == Outcome(S.profiles, S.current_profile, S.connection, e, <<>>)
        missing_fields == SelectSeq(required_fields, LAMBDA f : f \notin DOMAIN config)
    IN  IF missing_fields # <<>>
        THEN unchanged(Error("Exception",
                <<"Missing required fields for profile: ">>
                \o Join([i \in 1..Len(missing_fields) |-> <<missing_fields[i]>>], <<", ">>)))
        ELSE IF config["type"] # RDS_TYPE
        THEN unchanged(Error("Exception",
                <<"Unsupported database connection type: ">> \o config["type"]))
        ELSE Outcome(Put(S.profiles, profile_name, config), S.current_profile,
                     S.connection, NoError, <<>>)

\* add_profile that looks at the type before it looks for missing fields
add_profile_type_first(S, profile_name, config) ==
    LET unchanged(e) == Outcome(S.profiles, S.current_profile, S.connection, e, <<>>)
        missing_fields == SelectSeq(required_fields, LAMBDA f : f \notin DOMAIN config)
    IN  IF Has(S.profiles, profile_name)
        THEN unchanged(Error("Exception", <<"Profile '">> \o profile_name \o <<"' already exists">>))
        ELSE IF "type" \in DOMAIN config /\ config["type"] # RDS_TYPE
        THEN unchanged(Error("Exception",
                <<"Unsupported database connection type: ">> \o config["type"]))
        ELSE IF missing_fields # <<>>
        THEN unchanged(Error("Exception",
                <<"Missing required fields for profile: ">>
                \o Join([i \in 1..Len(missing_fields) |-> <<missing_fields[i]>>], <<", ">>)))
        ELSE Outcome(Put(S.profiles, profile_name, config), S.current_profile,
                     S.connection, NoError, <<>>)

\* add_profile that makes the profile it inserted the active one
add_profile_and_activate(S, profile_name, config) ==
    LET unchanged(e) == Outcome(S.profiles, S.current_profile, S.connection, e, <<>>)
        missing_fields == SelectSeq(required_fields, LAMBDA f : f \notin DOMAIN config)
    IN  IF Has(S.profiles, profile_name)
        THEN unchanged(Error("Exception", <<"Profile '">> \o profile_name \o <<"' already exists">>))
        ELSE IF missing_fields # <<>>
        THEN unchanged(Error("Exception",
                <<"Missing required fields for profile: ">>
                \o Join([i \in 1..Len(missing_fields) |-> <<missing_fields[i]>>], <<", ">>)))
        ELSE IF config["type"] # RDS_TYPE
        THEN unchanged(Error("Exception",
                <<"Unsupported database connection type: ">> \o config["type"]))
        ELSE Outcome(Put(S.profiles, profile_name, config), profile_name,
                     S.connection, NoError, <<>>)

\* Settings.add_profile(profile_name, config)
add_profile(S, profile_name, config) ==
    LET unchanged(e) == Outcome(S.profiles, S.current_profile, S.connection, e, <<>>)
        missing_fields == SelectSeq(required_fields, LAMBDA f : f \notin DOMAIN config)
    IN  IF Has(S.profiles, profile_name)
        THEN unchanged(Error("Exception", <<"Profile '">> \o profile_name \o <<"' already exists">>))
        ELSE IF missing_fields # <<>>
        THEN unchanged(Error("Exception",
                <<"Missing required fields for profile: ">>
                \o Join([i \in 1..Len(missing_fields) |-> <<missing_fields[i]>>], <<", ">>)))
        ELSE IF config["type"] # RDS_TYPE
        THEN unchanged(Error("Exception",
                <<"Unsupported database connection type: ">> \o config["type"]))
        ELSE Outcome(Put(S.profiles, profile_name, config), S.current_profile,
                     S.connection, NoError, <<>>)

\* yaml.safe_dump / yaml.dump write mapping keys sorted; the profile names the
\* model uses, in that order
SortedNames == <<"broken", "default", "nosecret", "prod", "staging">>
Rank(name) == CHOOSE i \in 1..Len(SortedNames) : SortedNames[i] = name[1]

RECURSIVE InsertSorted(_, _)
InsertSorted(e, ps) ==
    IF ps = <<>> THEN <<e>>
    ELSE IF Rank(e.name) <= Rank(Head(ps).name) THEN <<e>> \o ps
    ELSE <<Head(ps)>> \o InsertSorted(e, Tail(ps))

RECURSIVE SortByName(_)
SortByName(ps) == IF ps = <<>> THEN <<>> ELSE InsertSorted(Head(ps), SortByName(Tail(ps)))

\* yaml.dump({"profiles": profiles}) as read back by yaml.safe_load
yaml_dump_profiles(ps) == Yaml(MultiDoc(SortByName(ps)))

\* save_to_file that writes the active profile only
save_to_file_active_only(S, fs, file) ==
    [fs EXCEPT ![file] =
        yaml_dump_profiles(SelectSeq(S.profiles, LAMBDA e : e.name = S.current_profile))]

\* Settings.save_to_file(file): the file system afterwards
save_to_file(S, fs, file) == [fs EXCEPT ![file] = yaml_dump_profiles(S.profiles)]

(***************************************************************************)
(* The profile store driven directly through its methods (SpecSettings).   *)
(***************************************************************************)
ProfileNames == {DEFAULT_PROFILE, <<"staging">>, <<"prod">>, <<"broken">>, <<"nosecret">>}
AddNames == {DEFAULT_PROFILE, <<"prod">>}
ProfileConfigs ==
    {ProfDefault, ProfStaging, ProfUnknownType, ProfNoType, ProfMissingSecret, ProfBadArn,
     ProfEmptySecret, ProfOnlyType, ProfUnknownTypeNoDatabase}

NoArgs == [config |-> None, profile |-> None, debug |-> FALSE]
NoLine == [kind |-> "none", text |-> <<>>]

Self == Settings(profiles, current_profile, connection)

\* the store takes the outcome of a method call
Becomes(r) ==
    /\ profiles' = r.profiles
    /\ current_profile' = r.current_profile
    /\ connection' = r.connection
    /\ raised' = r.raised
    /\ provider_calls' = r.provider_calls

InitSettings ==
    /\ profiles = Settings__init__.profiles
    /\ current_profile = Settings__init__.current_profile
    /\ connection = Settings__init__.connection
    /\ files = InitialFiles(NoFile)
    /\ config_file = None
    /\ is_debug = FALSE
    /\ buffer = <<>>
    /\ prompt = <<>>
    /\ default_prompt = <<>>
    /\ args = NoArgs
    /\ isatty = FALSE
    /\ pc = "api"
    /\ exit_status = None
    /\ line = NoLine
    /\ call = [op |-> "__init__", name |-> <<>>]
    /\ raised = NoError
    /\ executed = <<>>
    /\ provider_calls = <<>>
    /\ backend_calls = <<>>
    /\ printed = <<>>
    /\ since_flush = <<>>

ApiLoadFromFile ==
    /\ pc = "api"
    /\ \E file \in Paths, provider_ok \in BOOLEAN :
        /\ Becomes(load_from_file(Self, files, file, provider_ok))
        /\ call' = [op |-> "load_from_file", name |-> file]
    /\ UNCHANGED <<files, pc>>
    /\ UNCHANGED cli_vars

ApiSwitchProfile ==
    /\ pc = "api"
    /\ \E profile_name \in ProfileNames, provider_ok \in BOOLEAN :
        /\ Becomes(switch_profile(Self, profile_name, provider_ok))
        /\ call' = [op |-> "switch_profile", name |-> profile_name]
    /\ UNCHANGED <<files, pc>>
    /\ UNCHANGED cli_vars

ApiAddProfile ==
    /\ pc = "api"
    /\ \E profile_name \in AddNames, config \in ProfileConfigs :
        /\ Len(profiles) < MaxProfiles \/ Has(profiles, profile_name)
        /\ Becomes(add_profile(Self, profile_name, config))
        /\ call' = [op |-> "add_profile", name |-> profile_name]
    /\ UNCHANGED <<files, pc>>
    /\ UNCHANGED cli_vars

NextSettings == ApiLoadFromFile \/ ApiSwitchProfile \/ ApiAddProfile

SpecSettings == InitSettings /\ [][NextSettings]_vars

(***************************************************************************)
(* The profile store saved to the default file and loaded back             *)
(* (SpecPersist).                                                          *)
(***************************************************************************)
\* save_to_file() with its default argument
ApiSaveToFile ==
    /\ pc = "api"
    /\ files' = save_to_file(Self, files, DEFAULT_CONFIG_FILE)
    /\ call' = [op |-> "save_to_file", name |-> DEFAULT_CONFIG_FILE]
    /\ raised' = NoError
    /\ provider_calls' = <<>>
    /\ UNCHANGED <<profiles, current_profile, connection, pc>>
    /\ UNCHANGED cli_vars

\* load_from_file(DEFAULT_CONFIG_FILE)
ApiLoadDefaultFile ==
    /\ pc = "api"
    /\ \E provider_ok \in BOOLEAN :
        Becomes(load_from_file(Self, files, DEFAULT_CONFIG_FILE, provider_ok))
    /\ call' = [op |-> "load_from_file", name |-> DEFAULT_CONFIG_FILE]
    /\ UNCHANGED <<files, pc>>
    /\ UNCHANGED cli_vars

NextPersist == ApiAddProfile \/ ApiSaveToFile \/ ApiLoadDefaultFile

SpecPersist == InitSettings /\ [][NextPersist]_vars

(***************************************************************************)
(* rdsline/connections/rds_secretsmanager.py and rdsline/results.py        *)
(***************************************************************************)
Digits == <<"0", "1", "2", "3", "4", "5", "6", "7", "8", "9">>

\* str(n) for an int
RECURSIVE NatToStr(_)
NatToStr(n) == IF n < 10 THEN <<Digits[n + 1]>> ELSE NatToStr(n \div 10) \o <<Digits[(n % 10) + 1]>>
IntToStr(n) == IF n < 0 THEN <<"-">> \o NatToStr(0 - n) ELSE NatToStr(n)

\* str(b) for a bool
BoolToStr_lower(b) == IF b THEN <<"true">> ELSE <<"false">>
BoolToStr(b) == IF b THEN <<"True">> ELSE <<"False">>

\* str(x) for a float, held as whole part and tenths
FloatToStr(x) == IntToStr(x.whole) \o <<".">> \o NatToStr(x.tenths)

\* known_types with the numbers before the string and the boolean
known_types_numbers_first ==
    <<"doubleValue", "longValue", "stringValue", "booleanValue", "blobValue", "arrayValue">>

known_types ==
    <<"stringValue", "booleanValue", "doubleValue", "longValue", "blobValue", "arrayValue">>

converter(type_name, v) ==
    CASE type_name = "stringValue" -> v["stringValue"]
      [] type_name = "booleanValue" -> BoolToStr(v["booleanValue"])
      [] type_name = "doubleValue" -> FloatToStr(v["doubleValue"])
      [] type_name = "longValue" -> IntToStr(v["longValue"])
      [] type_name = "blobValue" -> <<"BLOB">>
      [] type_name = "arrayValue" -> <<"ARRAY">>

\* _to_string that looks at the null flag last
_to_string_null_last(val) ==
    LET present == SelectSeq(known_types, LAMBDA t : t \in DOMAIN val)
    IN  IF present # <<>> THEN converter(present[1], val)
        ELSE IF "isNull" \in DOMAIN val /\ val["isNull"] THEN <<"NULL">>
        ELSE <<"UNKNOWN">>

_to_string(val) ==
    IF "isNull" \in DOMAIN val /\ val["isNull"] THEN <<"NULL">>
    ELSE LET present == SelectSeq(known_types, LAMBDA t : t \in DOMAIN val)
         IN  IF present # <<>> THEN converter(present[1], val) ELSE <<"UNKNOWN">>

\* DMLResult that does not keep the count
DMLResult_unset(number_updated) == [kind |-> "dml", number_updated |-> 0]

DMLResult(number_updated) == [kind |-> "dml", number_updated |-> number_updated]
QueryResult(headers, rows) == [kind |-> "query", headers |-> headers, rows |-> rows]

\* _to_result that takes a response with an updated-row count for DML
_to_result_count_first(response) ==
    IF "numberOfRecordsUpdated" \in DOMAIN response
    THEN [raised |-> NoError, result |-> DMLResult(response["numberOfRecordsUpdated"])]
    ELSE IF "columnMetadata" \notin DOMAIN response
    THEN [raised |-> Error("KeyError", <<"columnMetadata">>), result |-> DMLResult(0)]
    ELSE IF "records" \notin DOMAIN response
    THEN [raised |-> Error("KeyError", <<"records">>), result |-> DMLResult(0)]
    ELSE [raised |-> NoError,
          result |-> QueryResult(
              [i \in 1..Len(response["columnMetadata"]) |-> response["columnMetadata"][i].name],
              [r \in 1..Len(response["records"]) |->
                  [c \in 1..Len(response["records"][r]) |-> _to_string(response["records"][r][c])]])]

\* _to_result(response): the result, or the KeyError of a response without
\* column metadata and without an updated-row count
_to_result(response) ==
    IF "columnMetadata" \notin DOMAIN response /\ "numberOfRecordsUpdated" \in DOMAIN response
    THEN [raised |-> NoError, result |-> DMLResult(response["numberOfRecordsUpdated"])]
    ELSE IF "columnMetadata" \notin DOMAIN response
    THEN [raised |-> Error("KeyError", <<"columnMetadata">>), result |-> DMLResult(0)]
    ELSE IF "records" \notin DOMAIN response
    THEN [raised |-> Error("KeyError", <<"records">>), result |-> DMLResult(0)]
    ELSE [raised |-> NoError,
          result |-> QueryResult(
              [i \in 1..Len(response["columnMetadata"]) |-> response["columnMetadata"][i].name],
              [r \in 1..Len(response["records"]) |->
                  [c \in 1..Len(response["records"][r]) |-> _to_string(response["records"][r][c])]])]

\* what print shows: a line of text, or a table laid out by tabulate
Text(s) == [kind |-> "text", text |-> s]
Table(headers, rows, tablefmt) ==
    [kind |-> "table", headers |-> headers, rows |-> rows, tablefmt |-> tablefmt]

\* StatementResult.__str__
result__str__(result, tty) ==
    IF result.kind = "dml"
    THEN Text(<<"Number of record updated: ">> \o IntToStr(result.number_updated))
    ELSE IF tty THEN Table(result.headers, result.rows, "psql")
    ELSE Table(<<>>, result.rows, "tsv")

\* what the backend does with one execute_statement call: it fails, or it
\* answers with one of these responses
BackendFailure == [kind |-> "failure"]
Response(r) == [kind |-> "response", response |-> r]
BackendOutcomes ==
    {BackendFailure,
     Response("numberOfRecordsUpdated" :> 3),
     Response(("columnMetadata" :> <<[name |-> <<"a">>]>>)
              @@ ("records" :> << <<("longValue" :> 42)>> >>))}

\* execute that returns an empty result on the null connection
execute_noop_returns(conn, sql, backend) ==
    IF conn.kind = "noop"
    THEN [raised |-> NoError, result |-> DMLResult(0), backend_calls |-> <<>>]
    ELSE LET request == [resourceArn |-> conn.cluster_arn, database |-> conn.database,
                         secretArn |-> conn.secret_arn, includeResultMetadata |-> TRUE,
                         sql |-> sql, client |-> conn.client]
         IN  IF backend.kind = "failure"
             THEN [raised |-> Error("ClientError", <<"backend error">>),
                   result |-> DMLResult(0),
                   backend_calls |-> <<[request |-> request, answer |-> backend]>>]
             ELSE [raised |-> _to_result(backend.response).raised,
                   result |-> _to_result(backend.response).result,
                   backend_calls |-> <<[request |-> request, answer |-> backend]>>]

\* execute that calls the backend a second time when the first call failed
execute_retry_once(conn, sql, backend) ==
    IF conn.kind = "noop"
    THEN [raised |-> Error("NotImplementedError", <<"Execute in No op">>),
          result |-> DMLResult(0), backend_calls |-> <<>>]
    ELSE LET request == [resourceArn |-> conn.cluster_arn, database |-> conn.database,
                         secretArn |-> conn.secret_arn, includeResultMetadata |-> TRUE,
                         sql |-> sql, client |-> conn.client]
         IN  IF backend.kind = "failure"
             THEN [raised |-> Error("ClientError", <<"backend error">>),
                   result |-> DMLResult(0),
                   backend_calls |-> <<[request |-> request, answer |-> backend],
                                       [request |-> request, answer |-> backend]>>]
             ELSE [raised |-> _to_result(backend.response).raised,
                   result |-> _to_result(backend.response).result,
                   backend_calls |-> <<[request |-> request, answer |-> backend]>>]

\* Connection.execute(sql): the exception raised (NoError if none), the result,
\* and the execute_statement calls made, each with what the backend answered
execute(conn, sql, backend) ==
    IF conn.kind = "noop"
    THEN [raised |-> Error("NotImplementedError", <<"Execute in No op">>),
          result |-> DMLResult(0), backend_calls |-> <<>>]
    ELSE LET request == [resourceArn |-> conn.cluster_arn, database |-> conn.database,
                         secretArn |-> conn.secret_arn, includeResultMetadata |-> TRUE,
                         sql |-> sql, client |-> conn.client]
         IN  IF backend.kind = "failure"
             THEN [raised |-> Error("ClientError", <<"backend error">>),
                   result |-> DMLResult(0),
                   backend_calls |-> <<[request |-> request, answer |-> backend]>>]
             ELSE [raised |-> _to_result(backend.response).raised,
                   result |-> _to_result(backend.response).result,
                   backend_calls |-> <<[request |-> request, answer |-> backend]>>]

\* str(connection): RDSSecretsManagerConnection.__str__, or the default repr
connection__str__(conn) ==
    IF conn.kind = "noop" THEN <<"<rdsline.connections.NoopConnection object>">>
    ELSE Join(<< <<"Type: rds-secretsmanager">>,
                 <<"Cluster arn: ">> \o conn.cluster_arn,
                 <<"Secret arn: ">> \o conn.secret_arn,
                 <<"Database: ">> \o conn.database >>, <<"\n">>)

(***************************************************************************)
(* A connection used directly: execute against a backend that answers      *)
(* with typed cells (SpecConnection).                                      *)
(***************************************************************************)
ValueFields ==
    {"stringValue", "booleanValue", "doubleValue", "longValue", "blobValue",
     "arrayValue", "someValue"}

\* a float, as FloatToStr reads it
Float(whole, tenths) == [whole |-> whole, tenths |-> tenths]

\* one value for each field of a cell
SampleValue(f) ==
    CASE f = "stringValue" -> <<"hello world">>
      [] f = "booleanValue" -> TRUE
      [] f = "doubleValue" -> Float(1, 0)
      [] f = "longValue" -> 1
      [] f = "blobValue" -> <<"a", "a">>
      [] f = "arrayValue" -> <<>>
      [] f = "someValue" -> 0 - 1

\* the cell with the value fields fs; null is "absent", "true" or "false"
Cell(fs, null) ==
    [f \in fs \cup (IF null = "absent" THEN {} ELSE {"isNull"}) |->
        IF f = "isNull" THEN null = "true" ELSE SampleValue(f)]

Cells ==
    {Cell(fs, null) : fs \in SUBSET ValueFields, null \in {"absent", "true", "false"}}
    \cup {"stringValue" :> s : s \in {<<>>, <<"stringRow1">>, <<"NULL">>}}
    \cup {"booleanValue" :> FALSE}
    \cup {"doubleValue" :> Float(2, 0), "doubleValue" :> Float(0 - 3, 5)}
    \cup {"longValue" :> n : n \in {0, 12, 42, 69, 0 - 7}}
    \cup {"blobValue" :> <<"h", "e", "l", "l">>}

Column(name) == [name |-> <<name>>]

\* the response of tests/test_rds_secretsmanager.py
TestResponse ==
    ("columnMetadata" :>
        <<Column("stringCol"), Column("boolCol"), Column("doubleCol"), Column("longCol"),
          Column("blobCol"), Column("withNulls"), Column("unknownCol")>>)
    @@ ("records" :>
        << <<"stringValue" :> <<"stringRow1">>, "booleanValue" :> TRUE,
             "doubleValue" :> Float(2, 0), "longValue" :> 12,
             "blobValue" :> <<"a", "a">>, "isNull" :> TRUE, "someValue" :> 0>>,
           <<"stringValue" :> <<"stringRow2">>, "booleanValue" :> FALSE,
             "doubleValue" :> Float(1, 0), "longValue" :> 42,
             "blobValue" :> <<"h", "e", "l", "l">>, "longValue" :> 69,
             "someValue" :> 0 - 1>> >>)

Responses ==
    {"numberOfRecordsUpdated" :> n : n \in {0, 3, 12}}
    \cup {("columnMetadata" :> <<Column("a")>>) @@ ("records" :> << <<cell>> >>) :
            cell \in Cells}
    \cup {TestResponse,
          ("columnMetadata" :> <<Column("a"), Column("b")>>) @@ ("records" :> <<>>),
          ("columnMetadata" :> <<Column("a")>>) @@ ("records" :> << <<("longValue" :> 42)>> >>)
            @@ ("numberOfRecordsUpdated" :> 0)}

ConnBackendOutcomes == {BackendFailure} \cup {Response(r) : r \in Responses}

\* RDSSecretsManagerConnection(CLUSTER_ARN, SECRET_ARN, DATABASE, client)
InitConnection ==
    /\ profiles = Settings__init__.profiles
    /\ current_profile = Settings__init__.current_profile
    /\ connection = RDSSecretsManagerConnection(ArnEast, <<"secret-east">>, <<"db">>,
                        [profile |-> <<"default">>, region |-> <<"us-east-1">>])
    /\ files = InitialFiles(NoFile)
    /\ config_file = None
    /\ is_debug = FALSE
    /\ buffer = <<>>
    /\ prompt = <<>>
    /\ default_prompt = <<>>
    /\ args = NoArgs
    /\ isatty \in BOOLEAN
    /\ pc = "conn"
    /\ exit_status = None
    /\ line = NoLine
    /\ call = [op |-> "__init__", name |-> <<>>]
    /\ raised = NoError
    /\ executed = <<>>
    /\ provider_calls = <<>>
    /\ backend_calls = <<>>
    /\ printed = <<>>
    /\ since_flush = <<>>

\* print(connection.execute(sql))
ConnExecute ==
    /\ pc = "conn"
    /\ \E sql \in {<<"SELECT * FROM t1">>, <<"UPDATE t SET i = 1">>},
          backend \in ConnBackendOutcomes :
        LET r == execute(connection, sql, backend)
        IN  /\ call' = [op |-> "execute", name |-> sql]
            /\ executed' = <<[connection |-> connection, sql |-> sql]>>
            /\ backend_calls' = r.backend_calls
            /\ raised' = r.raised
            /\ printed' = IF r.raised = NoError
                          THEN <<result__str__(r.result, isatty)>>
                          ELSE <<>>
    /\ provider_calls' = <<>>
    /\ UNCHANGED <<profiles, current_profile, connection, files, config_file, is_debug,
                   buffer, prompt, default_prompt, args, isatty, pc, exit_status, line,
                   since_flush>>

NextConnection == ConnExecute

SpecConnection == InitConnection /\ [][NextConnection]_vars

(***************************************************************************)
(* rdsline/cli.py: the dot-command handlers.                               *)
(*                                                                         *)
(* A handler works on the world W = [profiles, current_profile,            *)
(* connection, config_file, is_debug, files] and yields the world after    *)
(* it, what it returned for printing (out), what it printed itself, the    *)
(* exception it raised if it let one escape (uncaught), and the client     *)
(* provider calls it made.                                                 *)
(***************************************************************************)
World == [profiles |-> profiles, current_profile |-> current_profile,
          connection |-> connection, config_file |-> config_file,
          is_debug |-> is_debug, files |-> files]

StoreOf(W) == Settings(W.profiles, W.current_profile, W.connection)

WithStore(W, r) ==
    [W EXCEPT !.profiles = r.profiles, !.current_profile = r.current_profile,
              !.connection = r.connection]

Returned(W, out, e, calls) ==
    [world |-> W, out |-> <<Text(out)>>, raised |-> e, uncaught |-> FALSE,
     provider_calls |-> calls]
Escaped(W, shown, e, calls) ==
    [world |-> W, out |-> shown, raised |-> e, uncaught |-> TRUE,
     provider_calls |-> calls]

_help ==
    Join(<< <<".quit - quits the REPL">>,
            <<".config <config_file> - sets new connection settings from a file">>,
            <<".show - displays current connection settings">>,
            <<".debug - toggle debugging information">>,
            <<".profile [name] - show current connection or switch to a different profile">>,
            <<".profiles - list available profiles">>,
            <<".addprofile - add a new profile interactively">> >>, <<"\n">>)

\* DebugCommand.__call__
DebugCommand__call__(W) ==
    Returned([W EXCEPT !.is_debug = ~W.is_debug],
             <<"Debugging is ">> \o (IF ~W.is_debug THEN <<"ON">> ELSE <<"OFF">>),
             NoError, <<>>)

\* ConfigCommand.load_config(args)
load_config(W, cmd_args, provider_ok) ==
    IF Len(cmd_args) < 2
    THEN Returned(W, <<"ERROR: Expecting config file">>, NoError, <<>>)
    ELSE LET file == expanduser(cmd_args[2])
             r == load_from_file(StoreOf(W), W.files, file, provider_ok)
             W2 == WithStore([W EXCEPT !.config_file = Some(file)], r)
         IN  IF r.raised # NoError
             THEN Escaped(W2, <<>>, r.raised, r.provider_calls)
             ELSE Returned(W2, <<"Loaded configuration from ">> \o cmd_args[2],
                           NoError, r.provider_calls)

\* .profile that names the new profile and keeps the connection it had
cmd_switch_profile_keep_connection(W, cmd_args, provider_ok) ==
    IF Len(cmd_args) = 1
    THEN Returned(W, connection__str__(W.connection), NoError, <<>>)
    ELSE IF Len(cmd_args) # 2
    THEN Returned(W, <<"ERROR: Expecting profile name">>, NoError, <<>>)
    ELSE LET r == switch_profile(StoreOf(W), cmd_args[2], provider_ok)
         IN  IF r.raised = NoError
             THEN Returned([W EXCEPT !.current_profile = r.current_profile],
                           <<"Switched to profile: ">> \o cmd_args[2],
                           NoError, r.provider_calls)
             ELSE Returned(WithStore(W, r), <<"ERROR: ">> \o r.raised.msg,
                           r.raised, r.provider_calls)

\* ProfileCommand.switch_profile(args)
cmd_switch_profile(W, cmd_args, provider_ok) ==
    IF Len(cmd_args) = 1
    THEN Returned(W, connection__str__(W.connection), NoError, <<>>)
    ELSE IF Len(cmd_args) # 2
    THEN Returned(W, <<"ERROR: Expecting profile name">>, NoError, <<>>)
    ELSE LET r == switch_profile(StoreOf(W), cmd_args[2], provider_ok)
         IN  IF r.raised = NoError
             THEN Returned(WithStore(W, r), <<"Switched to profile: ">> \o cmd_args[2],
                           NoError, r.provider_calls)
             ELSE Returned(WithStore(W, r), <<"ERROR: ">> \o r.raised.msg,
                           r.raised, r.provider_calls)

\* list_profiles that puts the marker on the first profile
list_profiles_mark_first(W) ==
    LET names == get_profile_names(StoreOf(W))
        result == <<<<"Available profiles:">>>> \o
                  [i \in 1..Len(names) |->
                      <<" ">> \o (IF i = 1 THEN <<"*">> ELSE <<" ">>)
                      \o <<" ">> \o names[i]]
    IN  IF names = <<>>
        THEN Returned(W, <<"No profiles configured">>, NoError, <<>>)
        ELSE Returned(W, Join(result, <<"\n">>), NoError, <<>>)

\* ProfileCommand.list_profiles(args)
list_profiles(W) ==
    LET names == get_profile_names(StoreOf(W))
        current == get_current_profile(StoreOf(W))
        result == <<<<"Available profiles:">>>> \o
                  [i \in 1..Len(names) |->
                      <<" ">> \o (IF names[i] = current THEN <<"*">> ELSE <<" ">>)
                      \o <<" ">> \o names[i]]
    IN  IF names = <<>>
        THEN Returned(W, <<"No profiles configured">>, NoError, <<>>)
        ELSE Returned(W, Join(result, <<"\n">>), NoError, <<>>)

\* one answer given to input(): typed text, Ctrl+C, or end of input
Typed(s) == [kind |-> "text", text |-> s]
CtrlC == [kind |-> "interrupt", text |-> <<>>]
EndOfInput == [kind |-> "eof", text |-> <<>>]

Signal(answer) ==
    IF answer.kind = "interrupt" THEN Error("KeyboardInterrupt", <<>>)
    ELSE Error("EOFError", <<"EOF when reading a line">>)

\* _get_profile_info without the check that the required fields are not empty
_get_profile_info_fields_unchecked(W, answers) ==
    LET stop(e) == [kind |-> "raised", raised |-> e]
        invalid(m) == [kind |-> "message", message |-> m]
        name == Strip(answers[1].text)
        typed_type == Strip(answers[2].text)
        profile_type == IF typed_type = <<>> THEN RDS_TYPE ELSE typed_type
        typed_aws == Strip(answers[6].text)
        aws_profile == IF typed_aws = <<>> THEN <<"default">> ELSE typed_aws
    IN  IF answers[1].kind # "text" THEN stop(Signal(answers[1]))
        ELSE IF name = <<>> THEN invalid(<<"Profile name cannot be empty">>)
        ELSE IF Has(W.profiles, name)
        THEN invalid(<<"Profile '">> \o name \o <<"' already exists">>)
        ELSE IF answers[2].kind # "text" THEN stop(Signal(answers[2]))
        ELSE IF profile_type # RDS_TYPE
        THEN invalid(<<"Unsupported database connection type: ">> \o profile_type)
        ELSE IF answers[3].kind # "text" THEN stop(Signal(answers[3]))
        ELSE IF answers[4].kind # "text" THEN stop(Signal(answers[4]))
        ELSE IF answers[5].kind # "text" THEN stop(Signal(answers[5]))
        ELSE IF answers[6].kind # "text" THEN stop(Signal(answers[6]))
        ELSE [kind |-> "info", name |-> name,
              info |-> ("type" :> profile_type) @@ ("cluster_arn" :> Strip(answers[3].text))
                       @@ ("secret_arn" :> Strip(answers[4].text))
                       @@ ("database" :> Strip(answers[5].text))
                       @@ ("credentials" :> ("profile" :> aws_profile))]

\* ProfileCommand._get_profile_info with the answers typed at its prompts:
\* the profile info, a validation message, or the exception input() raised
_get_profile_info(W, answers) ==
    LET stop(e) == [kind |-> "raised", raised |-> e]
        invalid(m) == [kind |-> "message", message |-> m]
        name == Strip(answers[1].text)
        typed_type == Strip(answers[2].text)
        profile_type == IF typed_type = <<>> THEN RDS_TYPE ELSE typed_type
        cluster_arn == Strip(answers[3].text)
        secret_arn == Strip(answers[4].text)
        database == Strip(answers[5].text)
        typed_aws == Strip(answers[6].text)
        aws_profile == IF typed_aws = <<>> THEN <<"default">> ELSE typed_aws
    IN  IF answers[1].kind # "text" THEN stop(Signal(answers[1]))
        ELSE IF name = <<>> THEN invalid(<<"Profile name cannot be empty">>)
        ELSE IF Has(W.profiles, name)
        THEN invalid(<<"Profile '">> \o name \o <<"' already exists">>)
        ELSE IF answers[2].kind # "text" THEN stop(Signal(answers[2]))
        ELSE IF profile_type # RDS_TYPE
        THEN invalid(<<"Unsupported database connection type: ">> \o profile_type)
        ELSE IF answers[3].kind # "text" THEN stop(Signal(answers[3]))
        ELSE IF answers[4].kind # "text" THEN stop(Signal(answers[4]))
        ELSE IF answers[5].kind # "text" THEN stop(Signal(answers[5]))
        ELSE IF cluster_arn = <<>> THEN invalid(<<"Cluster ARN cannot be empty">>)
        ELSE IF secret_arn = <<>> THEN invalid(<<"Secret ARN cannot be empty">>)
        ELSE IF database = <<>> THEN invalid(<<"Database cannot be empty">>)
        ELSE IF answers[6].kind # "text" THEN stop(Signal(answers[6]))
        ELSE [kind |-> "info", name |-> name,
              info |-> ("type" :> profile_type) @@ ("cluster_arn" :> cluster_arn)
                       @@ ("secret_arn" :> secret_arn) @@ ("database" :> database)
                       @@ ("credentials" :> ("profile" :> aws_profile))]

\* the confirmation taken as given unless the answer is n
_show_and_confirm_unless_n(answer) == Lower(Strip(answer.text)) # <<"n">>

\* ProfileCommand._show_and_confirm_profile: the answer is y
_show_and_confirm_profile(answer) == Lower(Strip(answer.text)) = <<"y">>

\* ProfileCommand.add_profile(args) with the answers typed at its prompts
cmd_add_profile(W, answers) ==
    LET banner == <<Text(<<"Adding a new profile. Press Ctrl+C at any time to cancel.">>)>>
        profile_info == _get_profile_info(W, answers)
        interrupted(e) ==
            IF e.type = "KeyboardInterrupt"
            THEN [world |-> W, out |-> banner \o <<Text(<<"Profile creation cancelled">>)>>,
                  raised |-> e, uncaught |-> FALSE, provider_calls |-> <<>>]
            ELSE Escaped(W, banner, e, <<>>)
    IN  IF profile_info.kind = "raised" THEN interrupted(profile_info.raised)
        ELSE IF profile_info.kind = "message"
        THEN [world |-> W, out |-> banner \o <<Text(profile_info.message)>>,
              raised |-> NoError, uncaught |-> FALSE, provider_calls |-> <<>>]
        ELSE IF answers[7].kind # "text" THEN interrupted(Signal(answers[7]))
        ELSE IF ~_show_and_confirm_profile(answers[7])
        THEN [world |-> W, out |-> banner \o <<Text(<<"Profile creation cancelled">>)>>,
              raised |-> NoError, uncaught |-> FALSE, provider_calls |-> <<>>]
        ELSE
            LET name == profile_info.name
                W2 == [W EXCEPT !.profiles = Put(W.profiles, name, profile_info.info)]
            IN  IF W.config_file = None
                THEN Escaped(W2, banner,
                             Error("TypeError", <<"expected str, bytes or os.PathLike object, not NoneType">>),
                             <<>>)
                ELSE IF W.config_file[1] \notin DOMAIN W.files
                THEN Escaped(W2, banner, Error("FileNotFoundError", W.config_file[1]), <<>>)
                ELSE [world |-> [W2 EXCEPT !.files =
                                    [W.files EXCEPT ![W.config_file[1]] = yaml_dump_profiles(W2.profiles)]],
                      out |-> banner \o <<Text(<<"Profile '">> \o name \o <<"' added successfully">>)>>,
                      raised |-> NoError, uncaught |-> FALSE, provider_calls |-> <<>>]

(***************************************************************************)
(* rdsline/cli.py: main.                                                   *)
(***************************************************************************)
Cmd(name) == <<".", name>>
QUIT == Cmd("quit")

commands ==
    {Cmd("help"), Cmd("show"), Cmd("debug"), Cmd("config"), Cmd("profile"),
     Cmd("profiles"), Cmd("addprofile")}

\* the lines typed at the prompt
SqlLines == {<<>>, <<";">>, <<"SELECT 1">>, <<"FROM t", ";">>}
DotLines ==
    {Cmd("help"), Cmd("show"), Cmd("debug"), Cmd("profiles"), Cmd("addprofile"),
     Cmd("config"),
     Cmd("config") \o <<" ">> \o PathMulti,
     Cmd("config") \o <<" ", "~", "/.rdsline">>,
     Cmd("profile"),
     Cmd("profile") \o <<" ", "staging">>,
     Cmd("profile") \o <<" ", "default">>,
     Cmd("profile") \o <<" ", "nonexistent">>,
     Cmd("profile") \o <<" ", "staging", " ", "default">>,
     Cmd("profile") \o <<" ", "staging", ";">>,
     Cmd("bogus") \o <<";">>, QUIT \o <<" ">>}
Lines == SqlLines \cup DotLines \cup {QUIT}

\* the answers typed at the prompts of .addprofile
Script(name, type, cluster, secret, database, aws, confirm) ==
    <<Typed(name), Typed(type), Typed(cluster), Typed(secret), Typed(database),
      Typed(aws), Typed(confirm)>>
GoodScript == Script(<<"prod">>, <<>>, ArnWest, <<"secret-west">>, <<"db">>, <<>>, <<"y">>)
\* Ctrl+C at one of the seven prompts
InterruptedScripts == {[GoodScript EXCEPT ![i] = CtrlC] : i \in 1..Len(GoodScript)}
\* an answer other than y at the confirmation
DeclinedScripts == {[GoodScript EXCEPT ![7] = Typed(c)] : c \in {<<"n">>, <<>>, <<"yes">>}}
AddProfileScripts ==
    {GoodScript,
     Script(<<" ", "prod", " ">>, RDS_TYPE, ArnEast, <<"secret-east">>, <<"db">>, <<"dev">>, <<"Y">>),
     [GoodScript EXCEPT ![1] = Typed(<<" ">>)],
     [GoodScript EXCEPT ![1] = Typed(<<"default">>)],
     [GoodScript EXCEPT ![2] = Typed(<<"mysql">>)],
     [GoodScript EXCEPT ![3] = Typed(<<>>)],
     [GoodScript EXCEPT ![4] = Typed(<<" ">>)],
     [GoodScript EXCEPT ![5] = Typed(<<>>)]}
    \cup InterruptedScripts
    \cup DeclinedScripts
    \cup {[GoodScript EXCEPT ![i] = EndOfInput] : i \in {1, 7}}

\* how the process is started: the command line, what the default
\* configuration file holds, and whether stdin is a terminal
Start(config, profile, debug, defaultContent, tty) ==
    [args |-> [config |-> config, profile |-> profile, debug |-> debug],
     files |-> InitialFiles(defaultContent), isatty |-> tty]
ValidDefaultFile == Yaml(MultiDoc(<<Entry(DEFAULT_PROFILE, ProfDefault)>>))
Starts ==
    {Start(None, None, FALSE, NoFile, TRUE),
     Start(None, None, FALSE, NoFile, FALSE),
     Start(None, None, FALSE, Unparsable, TRUE),
     Start(None, None, TRUE, ValidDefaultFile, TRUE),
     Start(Some(PathMulti), None, FALSE, NoFile, TRUE),
     Start(Some(PathMulti), Some(<<"staging">>), FALSE, NoFile, FALSE),
     Start(Some(PathMulti), Some(<<"nonexistent">>), FALSE, NoFile, TRUE),
     Start(Some(PathInvalid), None, FALSE, NoFile, TRUE),
     Start(Some(PathAbsent), None, FALSE, NoFile, TRUE),
     Start(Some(PathUnparsable), None, FALSE, NoFile, TRUE)}

\* Python truth of an optional string
Truthy(opt) == opt # None /\ opt[1] # <<>>

Traceback(e) == [kind |-> "traceback", raised |-> e]

\* the interactive prompt of a profile
ProfilePrompt(name) == name \o <<"> ">>
CONTINUATION == <<"|">>

\* sys.exit(0) in _read
EXIT_OK == 0

\* _read that lets EOFError escape instead of calling sys.exit(0)
_read_eof_uncaught(input) ==
    IF input.kind = "eof" THEN [exit |-> TRUE, status |-> 1, line |-> <<>>]
    ELSE IF input.text = QUIT THEN [exit |-> TRUE, status |-> EXIT_OK, line |-> <<>>]
    ELSE [exit |-> FALSE, status |-> EXIT_OK, line |-> input.text]

\* _read(prompt): whether the process exits, with which status, or the line read
_read(input) ==
    IF input.kind = "eof" THEN [exit |-> TRUE, status |-> EXIT_OK, line |-> <<>>]
    ELSE IF input.text = QUIT THEN [exit |-> TRUE, status |-> EXIT_OK, line |-> <<>>]
    ELSE [exit |-> FALSE, status |-> EXIT_OK, line |-> input.text]

\* commands recognised only while no statement is being typed
IsDotLine_idle_only(l) == l # <<>> /\ l[1] = "." /\ buffer = <<>>

\* only lines that name a registered command taken as dot lines
IsDotLine_registered_only(l) == l # <<>> /\ l[1] = "." /\ Split(l, " ")[1] \in commands

\* main: line and line[0] == "."
IsDotLine(l) == l # <<>> /\ l[1] = "."

\* the empty line forgotten
IsFlushLine_terminator_only(l) == l # <<>> /\ l[Len(l)] = ";"

\* the empty line taken as a flush only while a statement is being typed
IsFlushLine_unless_idle(l) == (l # <<>> /\ l[Len(l)] = ";") \/ (l = <<>> /\ buffer # <<>>)

\* main: line.endswith(";") or line == ""
IsFlushLine(l) == (l # <<>> /\ l[Len(l)] = ";") \/ l = <<>>

\* the buffer cleared only when execute returned
finally_buffer_on_success(buf, e) == IF e = NoError THEN <<>> ELSE buf

\* main: the finally clause of a flush
finally_buffer(buf, e) == <<>>
finally_prompt(p, dflt, e) == dflt

Init ==
    /\ profiles = Settings__init__.profiles
    /\ current_profile = Settings__init__.current_profile
    /\ connection = Settings__init__.connection
    /\ \E start \in Starts :
        /\ args = start.args
        /\ files = start.files
        /\ isatty = start.isatty
    /\ config_file = None
    /\ is_debug = FALSE
    /\ buffer = <<>>
    /\ prompt = <<>>
    /\ default_prompt = <<>>
    /\ pc = "start"
    /\ exit_status = None
    /\ line = NoLine
    /\ call = [op |-> "main", name |-> <<>>]
    /\ raised = NoError
    /\ executed = <<>>
    /\ provider_calls = <<>>
    /\ backend_calls = <<>>
    /\ printed = <<>>
    /\ since_flush = <<>>

\* the world variables take the value W
WorldBecomes(W) ==
    /\ profiles' = W.profiles
    /\ current_profile' = W.current_profile
    /\ connection' = W.connection
    /\ config_file' = W.config_file
    /\ is_debug' = W.is_debug
    /\ files' = W.files

\* the process dies of the uncaught exception e, with exit status 1
Crash(W, shown, e, calls) ==
    /\ WorldBecomes(W)
    /\ pc' = "crashed"
    /\ exit_status' = Some(1)
    /\ printed' = shown \o <<Traceback(e)>>
    /\ raised' = e
    /\ provider_calls' = calls

\* main, from its first line to the loop: load the configuration, switch to
\* --profile, build the commands, print the banner
Startup ==
    /\ pc = "start"
    /\ \E ok1 \in BOOLEAN, ok2 \in BOOLEAN :
        LET W0 == World
            loaded ==
                IF Truthy(args.config)
                THEN load_config(W0, <<<<"config">>, args.config[1]>>, ok1)
                ELSE IF FileAt(files, DEFAULT_CONFIG_FILE).kind # "missing"
                THEN load_config(W0, <<<<"config">>, DEFAULT_CONFIG_FILE>>, ok1)
                ELSE Returned(W0, <<>>, NoError, <<>>)
            W1 == loaded.world
            switched ==
                IF Truthy(args.profile)
                THEN switch_profile(StoreOf(W1), args.profile[1], ok2)
                ELSE Outcome(W1.profiles, W1.current_profile, W1.connection, NoError, <<>>)
            W2 == [WithStore(W1, switched) EXCEPT !.is_debug = args.debug]
        IN  IF loaded.uncaught
            THEN /\ Crash(W1, <<>>, loaded.raised, loaded.provider_calls)
                 /\ UNCHANGED <<buffer, prompt, default_prompt>>
            ELSE IF switched.raised # NoError
            THEN /\ Crash(WithStore(W1, switched), <<>>, switched.raised,
                          loaded.provider_calls \o switched.provider_calls)
                 /\ UNCHANGED <<buffer, prompt, default_prompt>>
            ELSE /\ WorldBecomes(W2)
                 /\ pc' = "running"
                 /\ exit_status' = None
                 /\ buffer' = <<>>
                 /\ default_prompt' = IF isatty
                                      THEN ProfilePrompt(get_current_profile(StoreOf(W2)))
                                      ELSE <<>>
                 /\ prompt' = default_prompt'
                 /\ printed' = IF isatty
                               THEN <<Text(<<"The RDS REPL">>), Text(<<"Type .help for help">>)>>
                               ELSE <<>>
                 /\ raised' = NoError
                 /\ provider_calls' = loaded.provider_calls \o switched.provider_calls
    /\ UNCHANGED <<args, isatty, line, call, executed, backend_calls, since_flush>>

\* _read meets the end of input, or the line .quit: sys.exit(0)
ReadExit ==
    /\ pc = "running"
    /\ \E input \in {EndOfInput, Typed(QUIT)} :
        /\ _read(input).exit
        /\ line' = IF input.kind = "eof" THEN [kind |-> "eof", text |-> <<>>]
                   ELSE [kind |-> "line", text |-> input.text]
        /\ exit_status' = Some(_read(input).status)
    /\ pc' = "exited"
    /\ raised' = NoError
    /\ executed' = <<>>
    /\ provider_calls' = <<>>
    /\ backend_calls' = <<>>
    /\ printed' = <<>>
    /\ UNCHANGED <<settings_vars, files, config_file, is_debug, buffer, prompt,
                   default_prompt, args, isatty, call, since_flush>>

\* a line that main dispatches to the registered command cmd
Dispatched(l, cmd) ==
    /\ ~_read(Typed(l)).exit
    /\ IsDotLine(l)
    /\ Split(l, " ")[1] = cmd
    /\ cmd \in commands

\* main after commands[cmd_args[0]](cmd_args) gave h: print what it returned,
\* and after .profile on a terminal show the profile in the prompt
AfterCommand(l, h) ==
    /\ line' = [kind |-> "line", text |-> l]
    /\ IF h.uncaught
       THEN /\ Crash(h.world, h.out, h.raised, h.provider_calls)
            /\ UNCHANGED <<prompt, default_prompt>>
       ELSE /\ WorldBecomes(h.world)
            /\ pc' = "running"
            /\ exit_status' = None
            /\ printed' = h.out
            /\ raised' = h.raised
            /\ provider_calls' = h.provider_calls
            /\ IF Split(l, " ")[1] = Cmd("profile") /\ isatty
               THEN /\ default_prompt' = ProfilePrompt(get_current_profile(StoreOf(h.world)))
                    /\ prompt' = default_prompt'
               ELSE UNCHANGED <<prompt, default_prompt>>
    /\ executed' = <<>>
    /\ backend_calls' = <<>>
    /\ UNCHANGED <<buffer, args, isatty, call, since_flush>>

CmdHelp ==
    /\ pc = "running"
    /\ \E l \in Lines :
        /\ Dispatched(l, Cmd("help"))
        /\ AfterCommand(l, Returned(World, _help, NoError, <<>>))

CmdShow ==
    /\ pc = "running"
    /\ \E l \in Lines :
        /\ Dispatched(l, Cmd("show"))
        /\ AfterCommand(l, Returned(World, connection__str__(connection), NoError, <<>>))

CmdDebug ==
    /\ pc = "running"
    /\ \E l \in Lines :
        /\ Dispatched(l, Cmd("debug"))
        /\ AfterCommand(l, DebugCommand__call__(World))

CmdConfig ==
    /\ pc = "running"
    /\ \E l \in Lines, provider_ok \in BOOLEAN :
        /\ Dispatched(l, Cmd("config"))
        /\ AfterCommand(l, load_config(World, Split(l, " "), provider_ok))

CmdProfile ==
    /\ pc = "running"
    /\ \E l \in Lines, provider_ok \in BOOLEAN :
        /\ Dispatched(l, Cmd("profile"))
        /\ AfterCommand(l, cmd_switch_profile(World, Split(l, " "), provider_ok))

CmdProfiles ==
    /\ pc = "running"
    /\ \E l \in Lines :
        /\ Dispatched(l, Cmd("profiles"))
        /\ AfterCommand(l, list_profiles(World))

CmdAddProfile ==
    /\ pc = "running"
    /\ Len(profiles) < MaxProfiles
    /\ \E l \in Lines, answers \in AddProfileScripts :
        /\ Dispatched(l, Cmd("addprofile"))
        /\ AfterCommand(l, cmd_add_profile(World, answers))

\* a line that starts with "." and names no registered command: nothing happens
UnknownCommand ==
    /\ pc = "running"
    /\ \E l \in Lines :
        /\ ~_read(Typed(l)).exit
        /\ IsDotLine(l)
        /\ Split(l, " ")[1] \notin commands
        /\ line' = [kind |-> "line", text |-> l]
    /\ raised' = NoError
    /\ executed' = <<>>
    /\ provider_calls' = <<>>
    /\ backend_calls' = <<>>
    /\ printed' = <<>>
    /\ UNCHANGED <<settings_vars, files, config_file, is_debug, buffer, prompt,
                   default_prompt, args, isatty, pc, exit_status, call, since_flush>>

\* a line that ends the statement: execute the buffer, print, clear
Flush ==
    /\ pc = "running"
    /\ \E l \in Lines, backend \in BackendOutcomes :
        /\ ~_read(Typed(l)).exit
        /\ ~IsDotLine(l)
        /\ IsFlushLine(l)
        /\ LET r == execute(connection, buffer \o l, backend)
           IN  /\ line' = [kind |-> "line", text |-> l]
               /\ executed' = <<[connection |-> connection, sql |-> buffer \o l]>>
               /\ backend_calls' = r.backend_calls
               /\ raised' = r.raised
               /\ printed' = IF r.raised = NoError
                             THEN <<result__str__(r.result, isatty)>>
                             ELSE <<Text(<<"Error: ">> \o r.raised.msg)>>
               /\ buffer' = finally_buffer(buffer \o l, r.raised)
               /\ prompt' = finally_prompt(prompt, default_prompt, r.raised)
    /\ since_flush' = <<>>
    /\ provider_calls' = <<>>
    /\ UNCHANGED <<settings_vars, files, config_file, is_debug, default_prompt,
                   args, isatty, pc, exit_status, call>>

\* any other line: keep it in the buffer
Accumulate ==
    /\ pc = "running"
    /\ Len(since_flush) < MaxPending
    /\ \E l \in Lines :
        /\ ~_read(Typed(l)).exit
        /\ ~IsDotLine(l)
        /\ ~IsFlushLine(l)
        /\ line' = [kind |-> "line", text |-> l]
        /\ buffer' = buffer \o l \o <<" ">>
        /\ since_flush' = Append(since_flush, l)
    /\ prompt' = CONTINUATION
    /\ raised' = NoError
    /\ executed' = <<>>
    /\ provider_calls' = <<>>
    /\ backend_calls' = <<>>
    /\ printed' = <<>>
    /\ UNCHANGED <<settings_vars, files, config_file, is_debug, default_prompt,
                   args, isatty, pc, exit_status, call>>

Next ==
    \/ Startup
    \/ ReadExit
    \/ CmdHelp
    \/ CmdShow
    \/ CmdDebug
    \/ CmdConfig
    \/ CmdProfile
    \/ CmdProfiles
    \/ CmdAddProfile
    \/ UnknownCommand
    \/ Flush
    \/ Accumulate

Spec == Init /\ [][Next]_vars

(***************************************************************************)
(* The store used directly and the process, side by side.                  *)
(***************************************************************************)
SpecAll == (Init \/ InitSettings) /\ [][Next \/ NextSettings]_vars

(***************************************************************************)
(* Properties of the profile store.                                        *)
(***************************************************************************)
\* the connection is the one built from profile dict cfg
BuiltFrom(conn, cfg) ==
    /\ conn.kind = "rds"
    /\ {"cluster_arn", "secret_arn", "database"} \subseteq DOMAIN cfg
    /\ conn.cluster_arn = cfg["cluster_arn"]
    /\ conn.secret_arn = cfg["secret_arn"]
    /\ conn.database = cfg["database"]

\* the profiles a configuration file holds, as load_from_file reads them
LoadedProfiles(file) ==
    IF "profiles" \in DOMAIN files[file].doc
    THEN files[file].doc["profiles"]
    ELSE <<Entry(DEFAULT_PROFILE, files[file].doc)>>

\* C1: after any sequence of Settings operations (construction included) the
\* active profile name is empty or a key of the profiles mapping.
C1_ActiveProfileIsKey ==
    current_profile = <<>> \/ Has(profiles, current_profile)

\* C2: after any sequence of Settings operations the active connection is the
\* null connection or the connection built from profiles[active profile name].
C2_ConnectionOfActiveProfile ==
    \/ connection = NoopConnection
    \/ /\ Has(profiles, current_profile)
       /\ BuiltFrom(connection, Get(profiles, current_profile))

\* C3: switch_profile(name) with name in profiles whose connection cannot be
\* built leaves the active profile name and the active connection as they were.
C3_SwitchAllOrNothing ==
    [][(/\ call'.op = "switch_profile"
        /\ Has(profiles, call'.name)
        /\ raised' # NoError)
       => (current_profile' = current_profile /\ connection' = connection)]_vars

\* C5: load activates the requested initial profile ("default") when it is
\* among the loaded profiles, otherwise the first loaded profile, and leaves
\* the null connection when nothing was loaded; a configuration without a
\* profile named "default" loads and activates an existing profile.
C5_LoadActivatesRequestedOrFirst ==
    (call.op = "load_from_file" /\ files[call.name].kind = "yaml") =>
        LET loaded == LoadedProfiles(call.name)
        IN  IF Has(loaded, DEFAULT_PROFILE) THEN current_profile = DEFAULT_PROFILE
            ELSE IF loaded # <<>>
                 THEN /\ current_profile = loaded[1].name
                      /\ profiles = loaded
                      /\ raised.type # "Exception"
            ELSE connection = NoopConnection


(***************************************************************************)
(* Properties of the session loop.                                         *)
(***************************************************************************)
StartsWithDot(l) == Len(l) > 0 /\ l[1] = "."
EndsStatement(l) == l = <<>> \/ l[Len(l)] = ";"
NamesRegisteredCommand(l) == StartsWithDot(l) /\ l # QUIT /\ Split(l, " ")[1] \in commands

\* the lines ls typed before the line l, as one statement
RECURSIVE Statement(_, _)
Statement(ls, l) == IF ls = <<>> THEN l ELSE Head(ls) \o <<" ">> \o Statement(Tail(ls), l)

NotFound(name) == Error("Exception", <<"Profile '">> \o name \o <<"' not found in config">>)

\* the listing .profiles prints for a store
Listing(ps, cur) ==
    list_profiles([World EXCEPT !.profiles = ps, !.current_profile = cur]).out

\* C4: switch_profile(name) with name not in profiles raises the not-found
\* error and changes neither the active profile name, nor the active
\* connection, nor profiles; `.profile <unknown>` at the prompt prints the
\* error and the listing of `.profiles` is the same after it as before.
C4_UnknownProfileChangesNothing ==
    [][/\ (pc = "api" /\ call'.op = "switch_profile" /\ ~Has(profiles, call'.name))
            => (raised' = NotFound(call'.name) /\ UNCHANGED settings_vars)
       /\ (/\ pc = "running"
           /\ line'.kind = "line"
           /\ Len(Split(line'.text, " ")) = 2
           /\ Split(line'.text, " ")[1] = Cmd("profile")
           /\ ~Has(profiles, Split(line'.text, " ")[2]))
            => /\ printed' = <<Text(<<"ERROR: ">> \o NotFound(Split(line'.text, " ")[2]).msg)>>
               /\ UNCHANGED settings_vars
               /\ Listing(profiles', current_profile') = Listing(profiles, current_profile)
               /\ pc' = "running"]_vars

C4_Witness ==
    /\ pc = "running"
    /\ line = [kind |-> "line", text |-> Cmd("profile") \o <<" ", "nonexistent">>]
    /\ raised = NotFound(<<"nonexistent">>)
    /\ connection.kind = "rds"
    /\ Len(profiles) = 2

\* C6: execute is called exactly once for a flush line (a line that is empty
\* or ends with ";" and is no dot line), with all lines typed since the last
\* flush as its argument, and is not called for any other line.
C6_ExecuteOncePerFlush ==
    [][pc = "running" =>
        IF line'.kind = "line" /\ ~StartsWithDot(line'.text) /\ EndsStatement(line'.text)
        THEN /\ Len(executed') = 1
             /\ executed'[1].sql = Statement(since_flush, line'.text)
             /\ executed'[1].connection = connection
        ELSE executed' = <<>>]_vars

C6_Witness ==
    /\ line = [kind |-> "line", text |-> <<";">>]
    /\ Len(executed) = 1
    /\ executed[1].sql = <<"SELECT 1", " ", ";">>
    /\ Len(backend_calls) = 1

\* C7: after every flush, whether execute returned or raised, the buffer is
\* empty, the session is Idle and the loop goes on reading.
C7_FlushClearsBuffer ==
    executed # <<>> =>
        /\ buffer = <<>>
        /\ since_flush = <<>>
        /\ prompt = default_prompt
        /\ pc = "running"

C7_Witness ==
    /\ executed # <<>>
    /\ executed[1].sql = <<"SELECT 1", " ", "SELECT 1", " ", "FROM t", ";">>
    /\ raised.type = "ClientError"
    /\ buffer = <<>>

\* C8: no error raised while handling an input line ends the process: after
\* any line other than .quit the loop is still running.
C8_ErrorsNeverTerminate ==
    (line.kind = "line" /\ line.text # QUIT) => pc = "running"

\* C9: .quit and end of input end the process with status 0, in either buffer
\* state, and nothing is executed for the text buffered so far.
C9_QuitAndEofExitZero ==
    (line.kind = "eof" \/ (line.kind = "line" /\ line.text = QUIT)) =>
        /\ pc = "exited"
        /\ exit_status = Some(0)
        /\ executed = <<>>
        /\ backend_calls = <<>>

C9_Witness ==
    /\ pc = "exited"
    /\ line.kind = "eof"
    /\ buffer = <<"SELECT 1", " ">>
    /\ connection.kind = "rds"

\* the buffer that holds the lines ls
RECURSIVE Buffered(_)
Buffered(ls) == IF ls = <<>> THEN <<>> ELSE Head(ls) \o <<" ">> \o Buffered(Tail(ls))

\* C10: a registered dot-command leaves the buffer as it is, in either buffer
\* state, so that the buffer always holds every SQL line typed since the last
\* flush and the next flush executes the whole statement.
C10_CommandsKeepBuffer ==
    /\ [][(pc = "running" /\ line'.kind = "line" /\ NamesRegisteredCommand(line'.text))
            => (buffer' = buffer /\ (buffer = <<>> <=> buffer' = <<>>))]_vars
    /\ [](pc = "running" => buffer = Buffered(since_flush))

C10_Witness ==
    /\ pc = "running"
    /\ line = [kind |-> "line", text |-> Cmd("profile") \o <<" ", "staging">>]
    /\ raised = NoError
    /\ buffer = <<"SELECT 1", " ">>

(***************************************************************************)
(* Properties of the prompt.                                               *)
(***************************************************************************)
\* the session reads lines from a terminal
Interactive == pc = "running" /\ isatty

\* C11: in an interactive session the prompt is the continuation marker
\* exactly when a statement is being accumulated, also after a dot-command
\* typed in the middle of the statement.
C11_ContinuationIffAccumulating ==
    Interactive => (since_flush # <<>> <=> prompt = CONTINUATION)

\* C12: in an interactive session that is Idle the prompt shows the name of
\* the active profile, whatever commands and flushes came before.
C12_IdlePromptNamesActiveProfile ==
    (Interactive /\ since_flush = <<>>) => prompt = ProfilePrompt(current_profile)

(***************************************************************************)
(* Properties of the dot-commands.                                         *)
(***************************************************************************)
\* the line starts with "." and its first token is no registered command
NamesNoCommand(l) == StartsWithDot(l) /\ l # QUIT /\ Split(l, " ")[1] \notin commands

\* C13: a line that starts with "." and names no registered command is
\* ignored: nothing is printed or executed, and buffer, prompt, profile store
\* and debug flag stay as they are.
C13_UnknownCommandIgnored ==
    [][(pc = "running" /\ line'.kind = "line" /\ NamesNoCommand(line'.text))
        => /\ printed' = <<>>
           /\ executed' = <<>>
           /\ backend_calls' = <<>>
           /\ provider_calls' = <<>>
           /\ pc' = "running"
           /\ UNCHANGED <<buffer, since_flush, prompt, default_prompt, profiles,
                          current_profile, connection, is_debug, files, config_file>>]_vars

C13_Witness ==
    /\ pc = "running"
    /\ line = [kind |-> "line", text |-> Cmd("bogus") \o <<";">>]
    /\ buffer = <<"SELECT 1", " ">>
    /\ prompt = CONTINUATION
    /\ is_debug

\* the last thing a handler gave for printing
LastOut(h) == h.out[Len(h.out)]
CANCELLED == Text(<<"Profile creation cancelled">>)

\* C14: profile-add cancelled by Ctrl+C at any prompt, or by a confirmation
\* answer other than y, leaves profiles, the active profile and the active
\* connection unchanged and writes no file.
C14_CancelledAddChangesNothing ==
    /\ [][(/\ pc = "running"
           /\ line'.kind = "line"
           /\ line'.text = Cmd("addprofile")
           /\ printed'[Len(printed')] = CANCELLED)
            => /\ UNCHANGED <<profiles, current_profile, connection, files, config_file>>
               /\ pc' = "running"]_vars
    /\ [](pc = "running" =>
            \A answers \in InterruptedScripts \cup DeclinedScripts :
                LET h == cmd_add_profile(World, answers)
                IN  /\ h.world = World
                    /\ ~h.uncaught
                    /\ ~Has(profiles, <<"prod">>) => LastOut(h) = CANCELLED)

C14_Witness ==
    /\ pc = "running"
    /\ line = [kind |-> "line", text |-> Cmd("addprofile")]
    /\ raised.type = "KeyboardInterrupt"
    /\ printed[Len(printed)] = CANCELLED
    /\ config_file = Some(PathMulti)
    /\ Len(profiles) = 2

\* the answers are all typed text
AllTyped(answers) == \A i \in 1..Len(answers) : answers[i].kind = "text"

\* what the answers give once surrounding blanks are dropped
Entered(answers, i) == Strip(answers[i].text)

\* the messages profile-add has for input it rejects
RejectionMessages(answers) ==
    {<<"Profile name cannot be empty">>,
     <<"Profile '">> \o Entered(answers, 1) \o <<"' already exists">>,
     <<"Unsupported database connection type: ">> \o Entered(answers, 2),
     <<"Cluster ARN cannot be empty">>,
     <<"Secret ARN cannot be empty">>,
     <<"Database cannot be empty">>}

\* the input profile-add must reject, given the profiles ps
InvalidInput(ps, answers) ==
    \/ Entered(answers, 1) = <<>>
    \/ Has(ps, Entered(answers, 1))
    \/ Entered(answers, 2) \notin {<<>>, RDS_TYPE}
    \/ Entered(answers, 3) = <<>>
    \/ Entered(answers, 4) = <<>>
    \/ Entered(answers, 5) = <<>>

\* C15: profile-add answers an empty name, a name already in profiles, a type
\* other than rds-secretsmanager, or an empty cluster ARN, secret ARN or
\* database with an error message, and changes neither profiles nor any file.
C15_InvalidAddRejected ==
    pc = "running" =>
        \A answers \in AddProfileScripts :
            (AllTyped(answers) /\ InvalidInput(profiles, answers)) =>
                LET h == cmd_add_profile(World, answers)
                IN  /\ h.world = World
                    /\ ~h.uncaught
                    /\ LastOut(h).text \in RejectionMessages(answers)

C15_Witness ==
    /\ pc = "running"
    /\ line = [kind |-> "line", text |-> Cmd("addprofile")]
    /\ printed[Len(printed)] = Text(<<"Database cannot be empty">>)
    /\ config_file = Some(PathMulti)
    /\ Len(profiles) = 2

\* the profile the answers describe, with the defaults for blank answers
ProfileEntered(answers) ==
    ("type" :> RDS_TYPE)
    @@ ("cluster_arn" :> Entered(answers, 3))
    @@ ("secret_arn" :> Entered(answers, 4))
    @@ ("database" :> Entered(answers, 5))
    @@ ("credentials" :> ("profile" :> IF Entered(answers, 6) = <<>> THEN <<"default">>
                                        ELSE Entered(answers, 6)))

\* the answers are valid for the profiles ps and confirmed with y
ConfirmedInput(ps, answers) ==
    /\ AllTyped(answers)
    /\ ~InvalidInput(ps, answers)
    /\ Lower(Entered(answers, 7)) = <<"y">>

\* the entries of a profiles mapping, whatever their order
Entries(ps) == {ps[i] : i \in 1..Len(ps)}

\* C16: after a confirmed profile-add profiles holds the new profile under the
\* entered name with the entered values and the defaults for blank answers,
\* every profile present before is still present, and the configuration file
\* written holds the full profiles mapping.
C16_ConfirmedAddStoresAndPersists ==
    pc = "running" =>
        \A answers \in AddProfileScripts :
            ConfirmedInput(profiles, answers) =>
                LET h == cmd_add_profile(World, answers)
                    name == Entered(answers, 1)
                IN  /\ ~h.uncaught
                    /\ LastOut(h) = Text(<<"Profile '">> \o name \o <<"' added successfully">>)
                    /\ Has(h.world.profiles, name)
                    /\ Get(h.world.profiles, name) = ProfileEntered(answers)
                    /\ Entries(h.world.profiles) = Entries(profiles) \cup {Entry(name, ProfileEntered(answers))}
                    /\ h.world.config_file = config_file
                    /\ config_file # None
                    /\ h.world.files[config_file[1]].kind = "yaml"
                    /\ Entries(h.world.files[config_file[1]].doc["profiles"])
                            = Entries(h.world.profiles)

\* the same, for a session that has a configuration file path
C16_ConfirmedAddWithConfigFile ==
    config_file # None => C16_ConfirmedAddStoresAndPersists

(***************************************************************************)
(* Properties of add_profile.                                              *)
(***************************************************************************)
\* the profile invariants: a recognised kind, and cluster, secret and
\* database present and not empty
SatisfiesInvariants(P) ==
    /\ "type" \in DOMAIN P
    /\ P["type"] = RDS_TYPE
    /\ \A f \in {"cluster_arn", "secret_arn", "database"} : f \in DOMAIN P /\ P[f] # <<>>

\* C17: for a name n not in profiles, add_profile(n, P) followed by
\* switch_profile(n) both succeed exactly when P satisfies the profile
\* invariants.
C17_AddThenSwitchIffValid ==
    pc = "api" =>
        \A n \in AddNames, P \in ProfileConfigs :
            ~Has(profiles, n) =>
                LET a == add_profile(Self, n, P)
                    s == switch_profile(Settings(a.profiles, a.current_profile, a.connection),
                                        n, TRUE)
                IN  (a.raised = NoError /\ s.raised = NoError) <=> SatisfiesInvariants(P)

AlreadyExists(name) == Error("Exception", <<"Profile '">> \o name \o <<"' already exists">>)

\* C18: add_profile(name, P) with name already in profiles raises the
\* already-exists error and leaves profiles, the active profile and the
\* active connection as they were.
C18_DuplicateAddChangesNothing ==
    [][(pc = "api" /\ call'.op = "add_profile" /\ Has(profiles, call'.name))
        => /\ raised' = AlreadyExists(call'.name)
           /\ UNCHANGED <<profiles, current_profile, connection>>]_vars

C18_Witness ==
    /\ pc = "api"
    /\ call = [op |-> "add_profile", name |-> DEFAULT_PROFILE]
    /\ raised = AlreadyExists(DEFAULT_PROFILE)
    /\ Has(profiles, DEFAULT_PROFILE)
    /\ Get(profiles, DEFAULT_PROFILE) = ProfDefault
    /\ connection.kind = "rds"

\* the required fields P lacks, in the order add_profile names them
Missing(P) ==
    SelectSeq(<<"type", "cluster_arn", "secret_arn", "database">>,
              LAMBDA f : f \notin DOMAIN P)

RECURSIVE CommaList(_)
CommaList(fs) ==
    IF Len(fs) = 1 THEN <<fs[1]>> ELSE <<fs[1], ", ">> \o CommaList(Tail(fs))

MissingFields(P) ==
    Error("Exception", <<"Missing required fields for profile: ">> \o CommaList(Missing(P)))
Unsupported(P) ==
    Error("Exception", <<"Unsupported database connection type: ">> \o P["type"])

\* C19: add_profile(name, P) raises and inserts nothing when P lacks one of
\* type, cluster_arn, secret_arn, database (the error names every missing
\* field) or when the type of P is not rds-secretsmanager; missing fields are
\* reported before an unsupported type.
C19_InvalidAddInsertsNothing ==
    /\ [][(pc = "api" /\ call'.op = "add_profile" /\ raised' # NoError)
            => UNCHANGED <<profiles, current_profile, connection>>]_vars
    /\ [](pc = "api" =>
            \A n \in AddNames, P \in ProfileConfigs :
                ~Has(profiles, n) =>
                    LET a == add_profile(Self, n, P)
                    IN  /\ Missing(P) # <<>> =>
                            a.raised = MissingFields(P) /\ a.profiles = profiles
                        /\ (Missing(P) = <<>> /\ P["type"] # RDS_TYPE) =>
                            a.raised = Unsupported(P) /\ a.profiles = profiles)

C19_Witness ==
    /\ pc = "api"
    /\ call = [op |-> "add_profile", name |-> <<"prod">>]
    /\ raised = Error("Exception", <<"Missing required fields for profile: ",
                                     "cluster_arn", ", ", "secret_arn", ", ", "database">>)
    /\ ~Has(profiles, <<"prod">>)
    /\ Len(profiles) = 2

\* C20: a successful add inserts the profile under its name without making it
\* the active one: the active profile name and the active connection are as
\* before and the client provider is not called; for add_profile of the store
\* and for the interactive profile-add.
C20_AddDoesNotActivate ==
    [][/\ (pc = "api" /\ call'.op = "add_profile" /\ raised' = NoError)
            => /\ ~Has(profiles, call'.name) /\ Has(profiles', call'.name)
               /\ current_profile' = current_profile
               /\ connection' = connection
               /\ provider_calls' = <<>>
       /\ (/\ pc = "running"
           /\ line'.kind = "line"
           /\ line'.text = Cmd("addprofile")
           /\ Len(profiles') > Len(profiles))
            => /\ current_profile' = current_profile
               /\ connection' = connection
               /\ provider_calls' = <<>>]_vars

C20_Witness ==
    /\ pc = "api"
    /\ call = [op |-> "add_profile", name |-> <<"prod">>]
    /\ raised = NoError
    /\ Has(profiles, <<"prod">>)
    /\ current_profile = <<"staging">>
    /\ BuiltFrom(connection, ProfStaging)

(***************************************************************************)
(* Properties of load_from_file and switch_profile.                        *)
(***************************************************************************)
\* the file holds a legacy configuration: a mapping without the key profiles
IsLegacy(file) == files[file].kind = "yaml" /\ "profiles" \notin DOMAIN files[file].doc

\* C21: loading a legacy configuration gives a store with exactly one
\* profile, named "default", whose fields are the top-level fields of the
\* file; when the load succeeds "default" is active and the connection is
\* the one built from it.
C21_LegacyLoadsAsDefault ==
    (pc = "api" /\ call.op = "load_from_file" /\ IsLegacy(call.name)) =>
        /\ profiles = <<Entry(DEFAULT_PROFILE, files[call.name].doc)>>
        /\ raised = NoError =>
            /\ current_profile = DEFAULT_PROFILE
            /\ BuiltFrom(connection, files[call.name].doc)

C21_Witness ==
    /\ pc = "api"
    /\ call = [op |-> "load_from_file", name |-> PathLegacy]
    /\ raised = NoError
    /\ profiles = <<Entry(DEFAULT_PROFILE, ProfDefault)>>
    /\ connection.kind = "rds"
    /\ connection.database = <<"db">>

\* the fourth ":"-separated part of an ARN of the model
RegionOf(cluster_arn) == <<cluster_arn[7]>>

\* C22: a successful switch_profile(name) makes name the active profile and
\* replaces the connection by one bound to the cluster, secret and database
\* of profiles[name] and to the client the provider returned; profiles is
\* unchanged.
C22_SwitchActivates ==
    [][(pc = "api" /\ call'.op = "switch_profile" /\ raised' = NoError)
        => /\ Has(profiles, call'.name)
           /\ profiles' = profiles
           /\ current_profile' = call'.name
           /\ BuiltFrom(connection', Get(profiles, call'.name))
           /\ provider_calls' = <<[profile |-> AwsProfile(Get(profiles, call'.name)),
                                   region |-> RegionOf(Get(profiles, call'.name)["cluster_arn"])]>>
           /\ connection'.client = provider_calls'[1]]_vars

C22_Witness ==
    /\ pc = "api"
    /\ call = [op |-> "switch_profile", name |-> <<"staging">>]
    /\ raised = NoError
    /\ current_profile = <<"staging">>
    /\ connection = [kind |-> "rds", cluster_arn |-> ArnWest, secret_arn |-> <<"secret-west">>,
                     database |-> <<"staging_db">>,
                     client |-> [profile |-> <<"dev">>, region |-> <<"us-west-2">>]]

\* the load failed on the profile it tried to activate: an unsupported kind
\* or a missing key
ActivationFailed(file, e) ==
    /\ files[file].kind = "yaml"
    /\ Has(LoadedProfiles(file), DEFAULT_PROFILE)
    /\ \/ e.type = "KeyError"
       \/ e.type = "Exception" /\ e.msg[1] = "Unsupported database connection type: "

\* C23: a load that fails because the profile it tries to activate is
\* invalid leaves profiles, the active profile name and the connection as
\* they were before the load.
C23_FailedLoadChangesNothing ==
    [][(pc = "api" /\ call'.op = "load_from_file" /\ ActivationFailed(call'.name, raised'))
        => UNCHANGED <<profiles, current_profile, connection>>]_vars

\* a profile no connection can be built from: an unsupported kind or a
\* required key that is missing
Unbuildable(P) ==
    \/ "type" \notin DOMAIN P
    \/ P["type"] # RDS_TYPE
    \/ {"cluster_arn", "secret_arn", "database"} \ DOMAIN P # {}

\* the file holds a valid profile "default"
HasValidDefault(file) ==
    /\ files[file].kind = "yaml"
    /\ Has(LoadedProfiles(file), DEFAULT_PROFILE)
    /\ SatisfiesInvariants(Get(LoadedProfiles(file), DEFAULT_PROFILE))

\* C24: validation is lazy. Loading a configuration whose profile "default"
\* is valid succeeds although other profiles of the file lack a required key
\* or have an unsupported kind (the load fails only if the client provider
\* does); the error is raised when such a profile is activated by
\* switch_profile.
C24_LazyValidation ==
    /\ [](( /\ pc = "api"
            /\ call.op = "load_from_file"
            /\ HasValidDefault(call.name))
            => /\ raised = NoError \/ raised.type = "ProviderError"
               /\ profiles = LoadedProfiles(call.name))
    /\ [][( /\ pc = "api"
            /\ call'.op = "switch_profile"
            /\ Has(profiles, call'.name)
            /\ Unbuildable(Get(profiles, call'.name)))
            => /\ raised'.type \in {"Exception", "KeyError", "ProviderError"}
               /\ connection' = connection]_vars

C24_Witness ==
    /\ pc = "api"
    /\ call = [op |-> "switch_profile", name |-> <<"nosecret">>]
    /\ raised = Error("KeyError", <<"secret_arn">>)
    /\ profiles = LoadedProfiles(PathLazy)
    /\ BuiltFrom(connection, ProfDefault)

(***************************************************************************)
(* Properties of save_to_file.                                             *)
(***************************************************************************)
\* two profiles mappings with the same names and the same profile under each
SameMapping(ps, qs) == Entries(ps) = Entries(qs) /\ Len(ps) = Len(qs)

\* C25: save_to_file writes the document {profiles: P}, P being the whole
\* profiles mapping, in place of what the file held; loading the file back
\* gives a profiles mapping equal to P.
C25_SaveThenLoadRoundTrip ==
    /\ [][(pc = "api" /\ call'.op = "save_to_file")
            => /\ files'[call'.name].kind = "yaml"
               /\ DOMAIN files'[call'.name].doc = {"profiles"}
               /\ SameMapping(files'[call'.name].doc["profiles"], profiles)
               /\ \A p \in DOMAIN files \ {call'.name} : files'[p] = files[p]
               /\ UNCHANGED <<profiles, current_profile, connection>>]_vars
    /\ [][(/\ pc = "api"
           /\ call'.op = "load_from_file"
           /\ files[call'.name].kind = "yaml"
           /\ "profiles" \in DOMAIN files[call'.name].doc)
            => SameMapping(profiles', files[call'.name].doc["profiles"])]_vars
    /\ [](pc = "api" =>
            \A provider_ok \in BOOLEAN :
                LET saved == save_to_file(Self, files, DEFAULT_CONFIG_FILE)
                    back == load_from_file(Settings__init__, saved, DEFAULT_CONFIG_FILE,
                                           provider_ok)
                IN  SameMapping(back.profiles, profiles))

C25_Witness ==
    /\ pc = "api"
    /\ call = [op |-> "load_from_file", name |-> DEFAULT_CONFIG_FILE]
    /\ raised = NoError
    /\ Names(profiles) = <<DEFAULT_PROFILE, <<"prod">> >>
    /\ Get(profiles, <<"prod">>) = ProfStaging
    /\ files[DEFAULT_CONFIG_FILE] = Yaml(MultiDoc(profiles))

(***************************************************************************)
(* Properties of the results of execute.                                   *)
(***************************************************************************)
\* the backend answered the last execute with a response
Answered == backend_calls # <<>> /\ backend_calls[1].answer.kind = "response"
LastResponse == backend_calls[1].answer.response

\* the response carries column metadata and records
IsQueryResponse(resp) == {"columnMetadata", "records"} \subseteq DOMAIN resp

\* the six value fields decode knows, and those of them a cell has
TypedFields ==
    {"stringValue", "booleanValue", "doubleValue", "longValue", "blobValue", "arrayValue"}
Populated(cell) == DOMAIN cell \cap TypedFields
NullFlagged(cell) == "isNull" \in DOMAIN cell /\ cell["isNull"] = TRUE

\* every cell of the last response for which P holds is shown as Shown says
EveryCell(P(_), Shown(_)) ==
    \A r \in 1..Len(LastResponse["records"]) :
        \A c \in 1..Len(LastResponse["records"][r]) :
            P(LastResponse["records"][r][c]) =>
                printed[1].rows[r][c] = Shown(LastResponse["records"][r][c])

NullMarker(cell) == <<"NULL">>

\* C26: a cell whose null flag is present and true is decoded as NULL,
\* whatever other value fields the cell has.
C26_NullFlagWins ==
    (Answered /\ IsQueryResponse(LastResponse)) =>
        /\ raised = NoError
        /\ EveryCell(NullFlagged, NullMarker)

C26_Witness ==
    /\ Answered
    /\ IsQueryResponse(LastResponse)
    /\ LastResponse["records"] =
            << <<Cell({"stringValue", "longValue", "blobValue", "someValue"}, "true")>> >>
    /\ printed[1].rows = << << <<"NULL">> >> >>

\* the text of the integers and floats the cells of the model hold
IntegerText(n) ==
    CASE n = 0 -> <<"0">>
      [] n = 1 -> <<"1">>
      [] n = 3 -> <<"3">>
      [] n = 12 -> <<"1", "2">>
      [] n = 42 -> <<"4", "2">>
      [] n = 69 -> <<"6", "9">>
      [] n = 0 - 7 -> <<"-", "7">>
DoubleText(x) ==
    CASE x = Float(1, 0) -> <<"1", ".", "0">>
      [] x = Float(2, 0) -> <<"2", ".", "0">>
      [] x = Float(0 - 3, 5) -> <<"-", "3", ".", "5">>

\* what the formatter of the one populated field gives
Formatted(cell) ==
    LET f == CHOOSE g \in Populated(cell) : TRUE
    IN  CASE f = "stringValue" -> cell[f]
          [] f = "booleanValue" -> IF cell[f] THEN <<"True">> ELSE <<"False">>
          [] f = "doubleValue" -> DoubleText(cell[f])
          [] f = "longValue" -> IntegerText(cell[f])
          [] f = "blobValue" -> <<"BLOB">>
          [] f = "arrayValue" -> <<"ARRAY">>

OnePopulated(cell) == Cardinality(Populated(cell)) = 1 /\ ~NullFlagged(cell)
NonePopulated(cell) == Populated(cell) = {} /\ ~NullFlagged(cell)
UnknownMarker(cell) == <<"UNKNOWN">>

HexOfByte(b) ==
    CASE b = "a" -> "61"
      [] b = "h" -> "68"
      [] b = "e" -> "65"
      [] b = "l" -> "6c"
HexBlob(cell) ==
    <<"BLOB(">> \o [i \in 1..Len(cell["blobValue"]) |-> HexOfByte(cell["blobValue"][i])]
    \o <<")">>
BlobOnly(cell) == OnePopulated(cell) /\ "blobValue" \in DOMAIN cell

\* C28: a blob cell is decoded as BLOB(<hex of its bytes>): the bytes aa as
\* BLOB(6161) and the bytes hell as BLOB(68656c6c).
C28_BlobAsHex ==
    (Answered /\ IsQueryResponse(LastResponse)) => EveryCell(BlobOnly, HexBlob)

\* the column names of a response, in metadata order
ColumnNames(resp) ==
    [i \in 1..Len(resp["columnMetadata"]) |-> resp["columnMetadata"][i].name]

\* C29: a response with column metadata, with or without an updated-row
\* count, gives a query result whose headers are the column names in metadata
\* order and whose rows are the records, cell by cell decoded, in the order
\* returned.
C29_MetadataMeansQuery ==
    (Answered /\ IsQueryResponse(LastResponse)) =>
        LET res == _to_result(LastResponse).result
            records == LastResponse["records"]
        IN  /\ raised = NoError
            /\ res.kind = "query"
            /\ res.headers = ColumnNames(LastResponse)
            /\ Len(res.rows) = Len(records)
            /\ \A r \in 1..Len(records) :
                /\ Len(res.rows[r]) = Len(records[r])
                /\ \A c \in 1..Len(records[r]) : res.rows[r][c] = _to_string(records[r][c])
            /\ printed = <<Table(IF isatty THEN res.headers ELSE <<>>, res.rows,
                                 IF isatty THEN "psql" ELSE "tsv")>>

C29_Witness ==
    /\ Answered
    /\ isatty
    /\ LastResponse = ("columnMetadata" :> <<[name |-> <<"a">>]>>)
                      @@ ("records" :> << <<("longValue" :> 42)>> >>)
                      @@ ("numberOfRecordsUpdated" :> 0)
    /\ printed = <<[kind |-> "table", headers |-> << <<"a">> >>,
                    rows |-> << << <<"4", "2">> >> >>, tablefmt |-> "psql"]>>

\* C30: a response without column metadata and with an updated-row count n
\* gives a DML result with that count, shown as "Number of record updated: n".
C30_CountMeansDml ==
    (Answered /\ "columnMetadata" \notin DOMAIN LastResponse
              /\ "numberOfRecordsUpdated" \in DOMAIN LastResponse) =>
        LET n == LastResponse["numberOfRecordsUpdated"]
        IN  /\ raised = NoError
            /\ _to_result(LastResponse).result = [kind |-> "dml", number_updated |-> n]
            /\ printed = <<[kind |-> "text",
                            text |-> <<"Number of record updated: ">> \o IntegerText(n)]>>

C30_Witness ==
    /\ Answered
    /\ LastResponse = ("numberOfRecordsUpdated" :> 3)
    /\ printed = <<[kind |-> "text", text |-> <<"Number of record updated: ", "3">>]>>
    /\ executed[1].sql = <<"UPDATE t SET i = 1">>

(***************************************************************************)
(* Properties of building a connection from a profile.                     *)
(***************************************************************************)
\* the profile the last call of the store tried to build a connection from
\* (None if it did not get that far)
AttemptedProfile ==
    IF call.op = "switch_profile" /\ Has(profiles, call.name)
    THEN Some(Get(profiles, call.name))
    ELSE IF /\ call.op = "load_from_file"
            /\ files[call.name].kind = "yaml"
            /\ Has(LoadedProfiles(call.name), DEFAULT_PROFILE)
    THEN Some(Get(LoadedProfiles(call.name), DEFAULT_PROFILE))
    ELSE None

\* the credentials reference of a profile, "default" when it has none
CredentialsReference(P) ==
    IF "credentials" \in DOMAIN P THEN P["credentials"]["profile"] ELSE <<"default">>

\* the profile is of the supported kind and its cluster identifier has a
\* fourth part
HasClusterRegion(P) ==
    /\ "type" \in DOMAIN P
    /\ P["type"] = <<"rds-secretsmanager">>
    /\ "cluster_arn" \in DOMAIN P
    /\ Len(P["cluster_arn"]) >= 7

\* C31: building a connection from a profile calls the client provider
\* exactly once, with the profile's credentials reference ("default" when it
\* has none) and the fourth ":"-separated part of its cluster identifier as
\* region.
C31_ProviderCalledOnceWithRegion ==
    (pc = "api" /\ AttemptedProfile # None /\ HasClusterRegion(AttemptedProfile[1])) =>
        provider_calls =
            <<[profile |-> CredentialsReference(AttemptedProfile[1]),
               region |-> RegionOf(AttemptedProfile[1]["cluster_arn"])]>>

C31_Witness ==
    /\ pc = "api"
    /\ call = [op |-> "load_from_file", name |-> PathLegacy]
    /\ AttemptedProfile = Some(ProfDefault)
    /\ ProfDefault["cluster_arn"] =
            <<"arn", ":", "aws", ":", "rds", ":", "us-east-1", ":", "111", ":", "cluster", ":", "c">>
    /\ provider_calls = <<[profile |-> <<"default">>, region |-> <<"us-east-1">>]>>
    /\ raised = NoError

\* the kind a profile names, None when it names none
KindOf(P) == IF "type" \in DOMAIN P THEN P["type"] ELSE <<"None">>

\* C32: building a connection from a profile whose kind is absent or is not
\* rds-secretsmanager fails with the unsupported-kind error that names the
\* kind, without a call of the client provider, whatever the other fields.
C32_UnsupportedKindFailsFirst ==
    (pc = "api" /\ AttemptedProfile # None
                /\ KindOf(AttemptedProfile[1]) # <<"rds-secretsmanager">>) =>
        /\ raised = Error("Exception", <<"Unsupported database connection type: ">>
                                       \o KindOf(AttemptedProfile[1]))
        /\ provider_calls = <<>>

C32_Witness ==
    /\ pc = "api"
    /\ call = [op |-> "switch_profile", name |-> <<"broken">>]
    /\ AttemptedProfile = Some(ProfUnknownTypeNoDatabase)
    /\ raised = Error("Exception",
                      <<"Unsupported database connection type: ", "fake-unknown-type">>)
    /\ provider_calls = <<>>

\* C32, for a profile that names no kind
C32_WitnessAbsentKind ==
    /\ pc = "api"
    /\ call = [op |-> "switch_profile", name |-> <<"prod">>]
    /\ AttemptedProfile = Some(ProfNoType)
    /\ raised = Error("Exception", <<"Unsupported database connection type: ", "None">>)

(***************************************************************************)
(* Properties of execute on the connections.                               *)
(***************************************************************************)
\* the execute_statement call that forwards sql on connection conn
Forwarded(conn, sql) ==
    [resourceArn |-> conn.cluster_arn, database |-> conn.database,
     secretArn |-> conn.secret_arn, includeResultMetadata |-> TRUE, sql |-> sql,
     client |-> conn.client]

\* C33: each execute(sql) on a remote connection makes exactly one
\* execute_statement call, with the cluster, secret and database the
\* connection is bound to, result metadata requested and sql as given; when
\* the call fails it is not repeated, the error reaches the caller and no
\* result is shown.
C33_OneBackendCallPerExecute ==
    (pc = "running" /\ executed # <<>> /\ executed[1].connection.kind = "rds") =>
        /\ Len(executed) = 1
        /\ Len(backend_calls) = 1
        /\ backend_calls[1].request = Forwarded(executed[1].connection, executed[1].sql)
        /\ backend_calls[1].answer.kind = "failure" =>
                /\ raised = Error("ClientError", <<"backend error">>)
                /\ printed = <<[kind |-> "text", text |-> <<"Error: ", "backend error">>]>>

C33_Witness ==
    /\ pc = "running"
    /\ executed = <<[connection |-> connection, sql |-> <<"SELECT 1", " ", ";">>]>>
    /\ connection.kind = "rds"
    /\ connection.database = <<"staging_db">>
    /\ Len(backend_calls) = 1
    /\ backend_calls[1].request.sql = <<"SELECT 1", " ", ";">>
    /\ backend_calls[1].request.database = <<"staging_db">>
    /\ backend_calls[1].answer.kind = "failure"
    /\ raised.type = "ClientError"

\* C34: the null connection is the connection of the store until a profile is
\* activated successfully; execute on it always fails; a flush while it is
\* the connection prints an error, empties the buffer and leaves the session
\* running and the store as it was.
C34_NullConnectionUntilActivated ==
    /\ [](pc \in {"start", "api"} /\ call.op \in {"main", "__init__"}
            => connection = [kind |-> "noop"])
    /\ [][(connection.kind = "noop" /\ connection'.kind # "noop")
            => /\ \E i \in 1..Len(profiles') : BuiltFrom(connection', profiles'[i].cfg)
               /\ provider_calls' # <<>>]_vars
    /\ []((executed # <<>> /\ executed[1].connection.kind = "noop")
            => /\ raised = Error("NotImplementedError", <<"Execute in No op">>)
               /\ backend_calls = <<>>)
    /\ [][(pc = "running" /\ connection.kind = "noop" /\ executed' # <<>>)
            => /\ printed' = <<[kind |-> "text", text |-> <<"Error: ", "Execute in No op">>]>>
               /\ buffer' = <<>>
               /\ pc' = "running"
               /\ UNCHANGED <<profiles, current_profile, connection>>]_vars

C34_Witness ==
    /\ pc = "running"
    /\ connection = [kind |-> "noop"]
    /\ executed = <<[connection |-> connection, sql |-> <<"SELECT 1", " ", ";">>]>>
    /\ printed = <<[kind |-> "text", text |-> <<"Error: ", "Execute in No op">>]>>
    /\ buffer = <<>>
    /\ since_flush = <<>>

(***************************************************************************)
(* Properties of .profiles.                                                *)
(***************************************************************************)
\* one line for each profile of ps, in order, the marker on the entry cur
RECURSIVE ProfileLines(_, _)
ProfileLines(ps, cur) ==
    IF ps = <<>> THEN <<>>
    ELSE <<"\n", " ", IF Head(ps).name = cur THEN "*" ELSE " ", " ">> \o Head(ps).name
         \o ProfileLines(Tail(ps), cur)

ProfileList(ps, cur) ==
    IF ps = <<>> THEN <<"No profiles configured">>
    ELSE <<"Available profiles:">> \o ProfileLines(ps, cur)

\* C35: .profiles prints every profile name in the order of the store, with
\* the marker on exactly the entries equal to the current profile name; with
\* no profiles it prints "No profiles configured"; it changes no state.
C35_ProfileListMarksCurrent ==
    [][(pc = "running" /\ line'.kind = "line" /\ line'.text = <<".", "profiles">>)
        => /\ printed' = <<[kind |-> "text", text |-> ProfileList(profiles, current_profile)]>>
           /\ pc' = "running"
           /\ UNCHANGED <<profiles, current_profile, connection, files, config_file,
                          is_debug, buffer, prompt, default_prompt>>]_vars

C35_Witness ==
    /\ pc = "running"
    /\ line = [kind |-> "line", text |-> <<".", "profiles">>]
    /\ Names(profiles) = << <<"default">>, <<"staging">> >>
    /\ current_profile = <<"staging">>
    /\ printed = <<[kind |-> "text",
                    text |-> <<"Available profiles:", "\n", " ", " ", " ", "default",
                               "\n", " ", "*", " ", "staging">>]>>

\* C35, with no profiles
C35_WitnessEmpty ==
    /\ pc = "running"
    /\ line = [kind |-> "line", text |-> <<".", "profiles">>]
    /\ profiles = <<>>
    /\ printed = <<[kind |-> "text", text |-> <<"No profiles configured">>]>>

(***************************************************************************)
(* Properties of the start of the session.                                 *)
(***************************************************************************)
\* --config was given
ConfigRequested == args.config # <<>> /\ args.config[1] # <<>>

\* C36: at startup a configuration that cannot be parsed ends the process
\* only when it was requested with --config; without --config a default
\* file that cannot be parsed is skipped and the session starts with the
\* null connection.
C36_ParseFailureFatalOnlyIfRequested ==
    [][pc = "start" =>
        /\ (ConfigRequested /\ files[args.config[1]].kind = "unparsable")
                => (pc' = "crashed" /\ raised'.type = "YAMLError")
        /\ (~ConfigRequested /\ files[<<"/home/u", "/.rdsline">>].kind = "unparsable")
                => (pc' = "running" /\ connection' = [kind |-> "noop"])]_vars

(***************************************************************************)
(* Properties of the flush.                                                *)
(***************************************************************************)
\* C37: an empty input line always triggers a flush: while a statement is
\* being typed it executes the buffered text, and with nothing buffered it
\* still calls execute on the active connection, with an empty statement.
C37_EmptyLineFlushes ==
    [][(pc = "running" /\ line'.kind = "line" /\ line'.text = <<>>)
        => /\ Len(executed') = 1
           /\ executed'[1].connection = connection
           /\ executed'[1].sql = buffer
           /\ since_flush = <<>> => executed'[1].sql = <<>>
           /\ since_flush' = <<>>
           /\ buffer' = <<>>]_vars

C37_Witness ==
    /\ pc = "running"
    /\ line = [kind |-> "line", text |-> <<>>]
    /\ executed = <<[connection |-> connection, sql |-> <<>>]>>
    /\ connection.kind = "rds"
    /\ Len(backend_calls) = 1
    /\ backend_calls[1].request.sql = <<>>

\* C37, while a statement is being typed
C37_WitnessAccumulating ==
    /\ pc = "running"
    /\ line = [kind |-> "line", text |-> <<>>]
    /\ executed = <<[connection |-> connection, sql |-> <<"SELECT 1", " ">>]>>

\* `.profile <name>` has just succeeded while a statement is being typed
SwitchedMidStatement ==
    /\ pc = "running"
    /\ line.kind = "line"
    /\ Len(line.text) = 4
    /\ SubSeq(line.text, 1, 3) = <<".", "profile", " ">>
    /\ raised = [type |-> "none", msg |-> <<>>]
    /\ since_flush # <<>>

\* the lines that end a statement
FlushLines == {<<>>, <<";">>, <<"FROM t", ";">>}

\* C38: a statement is executed on the connection that is active when its
\* flush line is read: after `.profile <name>` succeeded between the first
\* buffered line and the terminator, the whole buffered statement, the lines
\* typed before the switch included, is sent to the connection of the new
\* profile and nothing is sent to the old one.
C38_StatementGoesToActiveConnection ==
    /\ [](SwitchedMidStatement =>
            LET name == <<line.text[4]>>
            IN  /\ Has(profiles, name)
                /\ BuiltFrom(connection, Get(profiles, name))
                /\ \A l \in FlushLines, backend \in BackendOutcomes :
                    LET sent == execute(connection, buffer \o l, backend).backend_calls
                    IN  /\ Len(sent) = 1
                        /\ sent[1].request.resourceArn = Get(profiles, name)["cluster_arn"]
                        /\ sent[1].request.secretArn = Get(profiles, name)["secret_arn"]
                        /\ sent[1].request.database = Get(profiles, name)["database"]
                        /\ sent[1].request.sql = Statement(since_flush, l))
    /\ [][(pc = "running" /\ executed' # <<>>)
            => /\ executed' = <<[connection |-> connection,
                                 sql |-> Statement(since_flush, line'.text)]>>
               /\ line'.text \in FlushLines
               /\ \A i \in 1..Len(backend_calls') :
                    /\ backend_calls'[i].request.resourceArn = connection.cluster_arn
                    /\ backend_calls'[i].request.sql = Statement(since_flush, line'.text)]_vars

C38_Witness ==
    /\ SwitchedMidStatement
    /\ isatty
    /\ line.text = <<".", "profile", " ", "staging">>
    /\ since_flush = << <<"SELECT 1">> >>
    /\ connection.database = <<"staging_db">>
    /\ LET sent == execute(connection, buffer \o <<"FROM t", ";">>, BackendFailure).backend_calls
       IN  /\ Len(sent) = 1
           /\ sent[1].request.sql = <<"SELECT 1", " ", "FROM t", ";">>
           /\ sent[1].request.resourceArn = ArnWest

\* C38, after the flush
C38_WitnessFlushed ==
    /\ pc = "running"
    /\ line = [kind |-> "line", text |-> <<"FROM t", ";">>]
    /\ Len(backend_calls) = 1
    /\ backend_calls[1].request.sql = <<"SELECT 1", " ", "FROM t", ";">>
    /\ backend_calls[1].request.resourceArn = ArnWest
    /\ current_profile = <<"staging">>
    /\ isatty

(***************************************************************************)
(* Properties of the decoding of cells with several fields.                *)
(***************************************************************************)
\* the order in which decode looks for the value fields
Priority == <<"stringValue", "booleanValue", "doubleValue", "longValue", "blobValue", "arrayValue">>

\* the first field of Priority the cell has
FirstField(cell) ==
    Priority[CHOOSE i \in 1..Len(Priority) :
                /\ Priority[i] \in DOMAIN cell
                /\ \A j \in 1..(i - 1) : Priority[j] \notin DOMAIN cell]

\* what a cell without a true null flag is decoded to
ByPriority(cell) ==
    IF Populated(cell) = {} THEN <<"UNKNOWN">>
    ELSE Formatted([f \in {FirstField(cell)} |-> cell[f]])

NotNullFlagged(cell) == ~NullFlagged(cell)

\* C39: a cell with several value fields and no true null flag is decoded by
\* the first field it has in the order string, boolean, double, integer,
\* blob, array; a null flag that is present and false does not give NULL:
\* the cell is decoded by its value field, or as UNKNOWN when it has none.
C39_FirstFieldInPriorityOrder ==
    (Answered /\ IsQueryResponse(LastResponse)) => EveryCell(NotNullFlagged, ByPriority)

C39_Witness ==
    /\ Answered
    /\ IsQueryResponse(LastResponse)
    /\ LastResponse["records"] =
            << <<Cell({"booleanValue", "longValue", "blobValue", "someValue"}, "false")>> >>
    /\ printed[1].rows = << << <<"True">> >> >>

\* C39, for a cell with a false null flag and no value field
C39_WitnessFalseFlagOnly ==
    /\ Answered
    /\ IsQueryResponse(LastResponse)
    /\ LastResponse["records"] = << <<Cell({}, "false")>> >>
    /\ printed[1].rows = << << <<"UNKNOWN">> >> >>

(***************************************************************************)
(* Properties of .addprofile and the configuration file.                   *)
(***************************************************************************)
\* the file at the configuration path holds the profile n
Persisted(fs, path, n) ==
    /\ path # <<>>
    /\ fs[path[1]].kind = "yaml"
    /\ "profiles" \in DOMAIN fs[path[1]].doc
    /\ \E i \in 1..Len(fs[path[1]].doc["profiles"]) : fs[path[1]].doc["profiles"][i].name = n

\* C40: profiles and the configuration file agree after every .addprofile: a
\* profile is in the store after it exactly if the file write that holds it
\* was completed; when the write fails (no configuration file path, for one)
\* the store is left without the new profile.
C40_StoreAgreesWithFile ==
    [][(pc = "running" /\ line'.kind = "line" /\ line'.text = <<".", "addprofile">>)
        => /\ \A n \in {<<"default">>, <<"staging">>, <<"prod">>} :
                (~Has(profiles, n) /\ Has(profiles', n)) <=>
                    (~Has(profiles, n) /\ files' # files /\ Persisted(files', config_file', n))
           /\ files' = files => profiles' = profiles]_vars

====
